---- MODULE Spec2Model ----
(***************************************************************************)
(* State-machine model of CrystFEL's merging driver (partialator.c), of    *)
(* its figure-of-merit engine (fom.c), and of parts of indexamajig, the    *)
(* stream reader, the ASAP::O client and the geometry parser.              *)
(*                                                                         *)
(* The specifications of the module:                                       *)
(*   Spec     the merge driver: load, initial scaling, the N cycles of     *)
(*            refinable selection / post-refinement / re-scaling, output.  *)
(*   SpecSel  fom_select_reflections on two reflection lists.              *)
(*   SpecFom  resolution shells, fom_calculate (Wilson scaling and         *)
(*            accumulation), fom_overall and fom_shell.                    *)
(*   SpecRatio  the same calls for the Rano/Rsplit figure of merit.        *)
(*   SpecLoad the start of the merge driver: options, reference list, the  *)
(*            loop that reads the stream, up to the initial scaling.       *)
(*   SpecPool one call of refine_all, worker by worker.                    *)
(*   SpecFile write_reflections followed by read_reflections.              *)
(*   SpecFlags  indexamajig's --record option (parse_stream_flags).        *)
(*   SpecBin  the shells and bins of fom.c for any resolution range.       *)
(*   SpecAno  the same calls for the anomalous figures of merit.           *)
(*   SpecIndex, FairIndex  indexamajig's loop over the input file list,    *)
(*            thread by thread, with the output stream's mutex.            *)
(*   SpecCrystals  remove_flagged_crystals on one image.                   *)
(*   SpecSkip skip_some_files on a stream file.                            *)
(*   SpecAsapo  im_asapo_fetch and the streams of its data source.         *)
(*   SpecGeometry  data_template_new_from_string, line by line.            *)
(*                                                                         *)
(* Real quantities are kept exact: partialities in hundredths, intensities *)
(* as integers, resolutions as their cubes, quotients as fractions.        *)
(***************************************************************************)
EXTENDS Integers, Sequences, FiniteSets, TLC

\* ------------------------------------------------------------------ bounds

NCrystals == 2          \* crystals in the input stream
MaxIter == 2            \* largest --iterations value explored
MaxChunks == 2          \* chunks in the stream the loading loop reads
INDMAX == 1             \* largest Miller index of a reflection table
MaxFlags == 3           \* words in a --record argument
MaxImages == 2          \* images indexamajig goes through
MaxLines == 2           \* lines in indexamajig's input file list
MaxPerImage == 3        \* crystals of one image
MaxFileLines == 3       \* lines of a stream file that is skipped through
MaxStreams == 3         \* streams of an ASAP::O data source
MaxMessages == 2        \* messages of a stream waiting to be consumed
MaxGeometryLines == 3   \* lines of a geometry description

\* ------------------------------------------------------- program constants

MinPartiality == 5      \* 0.05, in hundredths
SigmaRatio == 3         \* I >= 3 sigma
MinFullParts == 2       \* "made from at least two parts"
DefaultOsf == 1
Micro == 1000000        \* "%f" writes six digits behind the point
MinRefinable == 1       \* floor number of refinable reflections (pr_refine)

PMODEL_UNITY == "unity"
PMODEL_SPHERE == "sphere"

\* --------------------------------------------------------------- utilities

Crystals == 1..NCrystals

\* The Miller indices the crystals' lists hold, and their place in list order.
HKL == {<<1, 0, 0>>, <<2, 0, 0>>}
IdxOf(h) == h[1]
NRefl == Cardinality(HKL)

EmptyList == [h \in {} |-> 0]

\* find_refl(list, h, k, l) != NULL
Found(list, h) == h \in DOMAIN list

\* ------------------------------------------------------------------- state

VARIABLES
    pc,               \* position of main() in partialator.c
    crystals,         \* Crystal **crystals: osf, user flag, geometry, reflections
    full,             \* RefList *full: the merged list of the last scaling pass
    reference,        \* RefList *reference (meaningful when have_reference)
    have_reference,   \* int have_reference
    pmodel,           \* PartialityModel pmodel
    n_iter,           \* int n_iter
    min_measurements, \* int min_measurements
    i,                \* loop counter of the post-refinement cycles
    nobs,             \* int nobs: scalable observations counted last
    n_filtered,       \* srdata.n_filtered
    n_started,        \* qargs.n_started
    n_done,           \* qargs.n_done
    n_scaled,         \* number of scale_intensities calls made
    reports,          \* iteration numbers handed to sr_iteration, in order
    written,          \* what write_reflist put into the output file
    log,              \* order of the driver's steps
    at_call           \* crystals and n_filtered as refine_all was entered

dvars == <<pc, crystals, full, reference, have_reference, pmodel, n_iter,
           min_measurements, i, nobs, n_filtered, n_started, n_done, n_scaled,
           reports, written, log, at_call>>

VARIABLES
    fpc,              \* position of the figure-of-merit caller
    list1,            \* RefList *list1
    list2,            \* RefList *list2
    given,            \* list1 and list2 as the caller handed them over
    sym,              \* SymOpList *sym (point-group name)
    sel,              \* arguments of fom_select_reflections
    list1_acc,        \* the caller's RefList *list1_acc
    list2_acc,        \* the caller's RefList *list2_acc
    ncom,             \* return value of fom_select_reflections
    leaked,           \* lists fom_select_reflections allocated and lost
    fom,              \* enum fom_type fom
    noscale,          \* int noscale
    shellp,           \* arguments of fom_make_resolution_shells
    shells,           \* struct fom_shells
    fctx,             \* struct fom_context returned by fom_calculate
    fres              \* outcome of fom_calculate / values read from fctx

fvars == <<fpc, list1, list2, given, sym, sel, list1_acc, list2_acc, ncom,
           leaked, fom, noscale, shellp, shells, fctx, fres>>

VARIABLES
    lpc,              \* position of main() before the initial scaling
    stream,           \* the chunks of the input stream
    n_read,           \* chunks the stream has handed out so far
    sym_str,          \* --symmetry argument
    lsym,             \* SymOpList *sym as get_pointgroup returned it
    pmodel_str,       \* --model argument
    reference_file,   \* --reference argument
    n_images,         \* int n_images
    loaded,           \* Crystal **crystals: <<chunk, number>> of each entry
    folds,            \* lists asymmetric_indices has folded, in order
    lscaled,          \* the crystals handed to the initial scale_intensities
    status            \* exit status of main, "running" before it returns

lvars == <<lpc, stream, n_read, sym_str, lsym, pmodel_str, reference_file,
           n_images, loaded, folds, lscaled, status>>

VARIABLES
    nthreads,         \* int nthreads as refine_all was called
    workers,          \* the pool's threads: what each is doing, and its task
    pool_started,     \* tasks the pool has started
    handed,           \* the indices get_image has read crystals[] at
    results           \* <<crystal, n_filtered>> of every finished task

pvars == <<nthreads, workers, pool_started, handed, results>>

VARIABLES
    rpc,              \* position of the caller of the two file functions
    zone_axis,        \* int zone_axis
    counts,           \* unsigned int *counts handed to write_reflections
    ref_tbl,          \* double *ref handed to write_reflections
    hklfile,          \* the lines of the file
    counts_in,        \* unsigned int *counts filled by read_reflections
    ref_in            \* double *ref returned by read_reflections

rvars == <<rpc, zone_axis, counts, ref_tbl, hklfile, counts_in, ref_in>>

VARIABLES
    spc,              \* position of indexamajig's main()
    record_arg,       \* the words of the --record argument
    stream_flags,     \* int stream_flags
    exit_status,      \* what main returned, "running" before it does
    n_processed       \* images processed

svars == <<spc, record_arg, stream_flags, exit_status, n_processed>>

VARIABLES
    ipc,              \* position of indexamajig's main() around run_threads
    filelist,         \* the lines of the input file list
    qargs,            \* struct queue_args: fh, use_this_one_instead, counts
    iworkers,         \* run_threads' threads: what each is doing, its task
    output_mutex,     \* pthread_mutex_t output_mutex: 0 or the holder
    ofh,              \* what write_chunk has put into the output stream
    tasks             \* the lines get_image has made tasks of, in order

ivars == <<ipc, filelist, qargs, iworkers, output_mutex, ofh, tasks>>

VARIABLES
    cpc,              \* position of the caller of remove_flagged_crystals
    image,            \* struct image: crystals[] and n_crystals
    image_in,         \* the image as it was handed over
    ci,               \* int i of remove_flagged_crystals
    n_bad             \* int n_bad

cvars == <<cpc, image, image_in, ci, n_bad>>

VARIABLES
    kpc,              \* position of the caller of skip_some_files
    sfile,            \* the stream file: its lines, and whether the last
                      \* one ends in a newline
    skip_n,           \* int n
    sfh,              \* FILE *fh: lines read so far
    n_patterns,       \* int n_patterns
    skip_ret          \* what skip_some_files returned

kvars == <<kpc, sfile, skip_n, sfh, n_patterns, skip_ret>>

VARIABLES
    asapo,            \* the ASAP::O server: its streams, in list order
    a_stream,         \* a->stream (0 for NULL)
    fetched           \* the last im_asapo_fetch call: stream, outcome

avars == <<asapo, a_stream, fetched>>

VARIABLES
    gpc,              \* position of data_template_new_from_string
    geometry,         \* the lines of the geometry description
    gpos,             \* lines gone through
    dt,               \* DataTemplate *dt
    reject            \* int reject

gvars == <<gpc, geometry, gpos, dt, reject>>

\* The variables of the library functions and tools modelled one by one.
tvars == <<ivars, cvars, kvars, avars, gvars>>

\* What the actions of each part of the model leave alone.
Programs == <<dvars, fvars, lvars, pvars, rvars, svars>>
NotDriver == <<fvars, lvars, pvars, rvars, svars, tvars>>
NotFom == <<dvars, lvars, pvars, rvars, svars, tvars>>
NotLoad == <<dvars, fvars, pvars, rvars, svars, tvars>>
NotPool == <<fvars, lvars, rvars, svars, tvars>>
NotFile == <<dvars, fvars, lvars, pvars, svars, tvars>>
NotFlags == <<dvars, fvars, lvars, pvars, rvars, tvars>>
NotIndex == <<Programs, cvars, kvars, avars, gvars>>
NotCrystals == <<Programs, ivars, kvars, avars, gvars>>
NotSkip == <<Programs, ivars, cvars, avars, gvars>>
NotAsapo == <<Programs, ivars, cvars, kvars, gvars>>
NotGeometry == <<Programs, ivars, cvars, kvars, avars>>

\* indexamajig's task queue before main sets it up.
IndexIdle ==
    /\ ipc = "idle" /\ filelist = <<>> /\ qargs = <<>> /\ iworkers = <<>>
    /\ output_mutex = 0 /\ ofh = <<>> /\ tasks = <<>>

\* No image is being cleared of flagged crystals.
CrystalsIdle ==
    /\ cpc = "idle" /\ image = <<>> /\ image_in = <<>> /\ ci = 0 /\ n_bad = 0

\* No stream file is being skipped through.
SkipIdle ==
    /\ kpc = "idle" /\ sfile = <<>> /\ skip_n = 0 /\ sfh = 0
    /\ n_patterns = 0 /\ skip_ret = "none"

\* No ASAP::O connection.
AsapoIdle == asapo = <<>> /\ a_stream = 0 /\ fetched = <<>>

\* No geometry description is being read.
GeometryIdle ==
    /\ gpc = "idle" /\ geometry = <<>> /\ gpos = 0 /\ dt = <<>> /\ reject = 0

ToolsIdle ==
    IndexIdle /\ CrystalsIdle /\ SkipIdle /\ AsapoIdle /\ GeometryIdle

\* The file variables while no file is written or read.
FileIdle ==
    /\ rpc = "idle" /\ zone_axis = FALSE /\ counts = <<>> /\ ref_tbl = <<>>
    /\ hklfile = <<>> /\ counts_in = <<>> /\ ref_in = <<>>

\* indexamajig's variables while it does not run.
FlagsIdle ==
    /\ spc = "idle" /\ record_arg = <<>> /\ stream_flags = <<>>
    /\ exit_status = "running" /\ n_processed = 0

\* The pool's variables outside refine_all.
PoolIdle ==
    /\ nthreads = 1 /\ workers = <<>> /\ pool_started = 0
    /\ handed = <<>> /\ results = <<>>

\* The loading variables while another part runs.
LoadIdle ==
    /\ lpc = "idle" /\ stream = <<>> /\ n_read = 0
    /\ sym_str = "1" /\ lsym = "1" /\ pmodel_str = "NULL"
    /\ reference_file = "NULL" /\ n_images = 0 /\ loaded = <<>>
    /\ folds = <<>> /\ lscaled = <<>> /\ status = "running"

\* --------------------------------------------------- partiality (geometry)

\* The sphere model's prediction for reflection number idx of a crystal in
\* orientation geom: the partiality in hundredths and whether the reflection
\* is predicted at all (redundancy 1) or lost (partiality 0, redundancy 0).
SpherePrediction(geom, idx) ==
    LET k == (geom + idx) % 4
    IN  CASE k = 1 -> [partiality |-> MinPartiality,     redundancy |-> 1]
          [] k = 2 -> [partiality |-> MinPartiality - 1, redundancy |-> 1]
          [] k = 3 -> [partiality |-> 50,                redundancy |-> 1]
          [] OTHER -> [partiality |-> 0,                 redundancy |-> 0]

\* update_partialities_2(cryst, pmodel, ...): refresh every reflection of the
\* crystal's list from its current geometry.  Unity: p = 1, nothing is lost.
update_partialities_2(cr, pm) ==
    [cr EXCEPT !.refl = [h \in DOMAIN cr.refl |->
        IF pm = PMODEL_UNITY
        THEN [cr.refl[h] EXCEPT !.partiality = 100]
        ELSE LET p == SpherePrediction(cr.geom, IdxOf(h))
             IN  [cr.refl[h] EXCEPT !.partiality = p.partiality,
                                    !.redundancy = p.redundancy]]]

\* ------------------------------------------------ select_scalable_reflections

\* Mutant: the threshold itself refused.
HardlyThere_Inclusive(p) == p <= MinPartiality

\* The partiality test of select_scalable_reflections.
HardlyThere(p) == p < MinPartiality

\* The value of sc for one reflection.
ScalableFlag(r, h, ref, have_ref) ==
    LET sc1 == IF r.redundancy = 0 THEN 0 ELSE 1
        sc2 == IF HardlyThere(r.partiality) THEN 0 ELSE sc1
        sc3 == IF have_ref /\ ~Found(ref, h) THEN 0 ELSE sc2
    IN  sc3

\* select_scalable_reflections(list, reference): the list with every scalable
\* flag set, and the returned n_acc.
select_scalable_reflections(list, ref, have_ref) ==
    LET new == [h \in DOMAIN list |->
                  [list[h] EXCEPT !.scalable = ScalableFlag(list[h], h, ref, have_ref)]]
    IN  [list |-> new,
         n_acc |-> Cardinality({h \in DOMAIN new : new[h].scalable = 1})]

\* ------------------------------------------ select_reflections_for_refinement

TooWeak(r) == r.intensity < SigmaRatio * r.esd

EnoughParts(f, have_ref) == (f.redundancy >= MinFullParts) \/ have_ref

\* The reflections at which select_reflections_for_refinement calls abort():
\* strong, scalable, and not found in the comparison list.
AbortsAt(crs, comp) ==
    {<<c, h>> \in Crystals \X HKL :
        /\ ~TooWeak(crs[c].refl[h])
        /\ crs[c].refl[h].scalable = 1
        /\ ~Found(comp, h)}

\* Position of a reflection in the double loop (crystals, then list order).
LoopPos(c, h) == (c - 1) * NRefl + IdxOf(h)

\* The refinable flag one visit of the loop body leaves on a reflection.
RefinableFlag(r, h, comp, have_ref) ==
    IF TooWeak(r) THEN 0
    ELSE IF r.scalable = 0 THEN 0
    ELSE IF Found(comp, h) /\ EnoughParts(comp[h], have_ref) THEN 1
    ELSE r.refinable      \* n_fewmatch++ : the flag is left as it was

\* select_reflections_for_refinement(crystals, n, full, have_reference): the
\* crystals after the loop, which stops at the first abort() if there is one.
select_reflections_for_refinement(crs, comp, have_ref) ==
    LET bad == AbortsAt(crs, comp)
        visited(c, h) == \A b \in bad : LoopPos(c, h) < LoopPos(b[1], b[2])
    IN  [c \in Crystals |->
            [crs[c] EXCEPT !.refl = [h \in DOMAIN crs[c].refl |->
                IF visited(c, h)
                THEN [crs[c].refl[h] EXCEPT
                        !.refinable = RefinableFlag(crs[c].refl[h], h, comp, have_ref)]
                ELSE crs[c].refl[h]]]]

\* ------------------------------------------------------------------ scaling

\* Mutant: flagged crystals taken along.
Contributors_IgnoringFlag(crs, h) ==
    {c \in Crystals : crs[c].refl[h].scalable = 1}

\* The crystals that contribute an observation of h to a scaling pass.
Contributors(crs, h) ==
    {c \in Crystals : crs[c].user_flag = 0 /\ crs[c].refl[h].scalable = 1}

\* scale_intensities(crystals, n, reference, nthreads, noscale, pmodel,
\* min_measurements): the merged list.  An entry is kept when at least
\* min_measurements observations (and at least one) support it; its
\* redundancy is the number of contributing observations.
scale_intensities(crs, min_meas) ==
    LET n(h) == Cardinality(Contributors(crs, h))
    IN  [h \in {x \in HKL : n(x) >= 1 /\ n(x) >= min_meas} |-> [redundancy |-> n(h)]]

\* ---------------------------------------------------------- post-refinement

\* The orientations a crystal can be in.
Geoms == {0, 1, 2}

\* Refinement keeps the orientation or moves it to the next one.
Nearby(g) == {g, (g + 1) % Cardinality(Geoms)}

NumRefinable(cr) == Cardinality({h \in DOMAIN cr.refl : cr.refl[h].refinable = 1})

\* A refinement that converged to orientation g.
Refined(cr, g) ==
    LET new == update_partialities_2([cr EXCEPT !.geom = g], PMODEL_SPHERE)
        was == {h \in DOMAIN cr.refl : cr.refl[h].scalable = 1}
        lost == {h \in was : new.refl[h].redundancy = 0}
    IN  [new EXCEPT !.user_flag =
            IF 2 * Cardinality(lost) > Cardinality(was) THEN 3 ELSE 0]

\* pr_refine(cr, full, pmodel): every result the refinement of one crystal can
\* have: too few refinable reflections (flag 1), solver failure (flag 2), or a
\* new orientation with refreshed partialities (flag 0, or 3 when more than
\* half of the scalable reflections were lost).
pr_refine(cr) ==
    IF NumRefinable(cr) < MinRefinable
    THEN {[crystal |-> [cr EXCEPT !.user_flag = 1], n_filtered |-> 0]}
    ELSE {[crystal |-> [cr EXCEPT !.user_flag = 2], n_filtered |-> 0]}
         \cup {[crystal |-> Refined(cr, g), n_filtered |-> f] :
                  g \in Nearby(cr.geom), f \in 0..1}

\* -------------------------------------------------------------- main()

\* Mutant: the early return missing.
NoRefinement_Never(pm) == FALSE

\* if ( pmodel == PMODEL_UNITY ) return;
NoRefinement(pm) == pm = PMODEL_UNITY

\* Mutant: one cycle too many.
LoopContinues_OffByOne(k, n) == k <= n

\* for ( i=0; i<n_iter; i++ )
LoopContinues(k, n) == k < n

\* comp = (reference == NULL) ? full : reference;
Comp == IF have_reference THEN reference ELSE full

\* select_scalable_reflections over every crystal, summing nobs.
SelectAll(crs) ==
    [c \in Crystals |->
        [crs[c] EXCEPT !.refl =
            select_scalable_reflections(crs[c].refl, reference, have_reference).list]]

RECURSIVE SumNobs(_, _)
SumNobs(crs, c) ==
    IF c = 0 THEN 0
    ELSE SumNobs(crs, c - 1)
         + select_scalable_reflections(crs[c].refl, reference, have_reference).n_acc

\* The intensities a crystal's chunk of the stream holds: sigma is 1 and the
\* intensity 3, except for at most one reflection of intensity 2 (weak is its
\* number, 0 for none) in the first chunk.  main fills in the initial estimates.
LoadedRefl(weak, h) ==
    [intensity |-> IF IdxOf(h) = weak THEN 2 ELSE 3, esd |-> 1,
     partiality |-> 100, redundancy |-> 1, scalable |-> 0, refinable |-> 0]

LoadedCrystal(weak, g) ==
    [osf |-> DefaultOsf, user_flag |-> 0, geom |-> g,
     refl |-> [h \in HKL |-> LoadedRefl(weak, h)]]

\* A reference list read from file: a subset of the indices.
References == {[h \in S |-> [redundancy |-> 1]] : S \in {{<<1, 0, 0>>}, HKL}}

DriverInit ==
    /\ pc = "loaded"
    /\ \E w \in 0..NRefl, g \in Geoms :
          crystals = [c \in Crystals |-> LoadedCrystal(IF c = 1 THEN w ELSE 0, g)]
    /\ have_reference \in BOOLEAN
    /\ reference \in IF have_reference THEN References ELSE {EmptyList}
    /\ pmodel \in {PMODEL_UNITY, PMODEL_SPHERE}
    /\ n_iter \in 0..MaxIter
    /\ min_measurements \in 1..2
    /\ full = EmptyList
    /\ i = 0 /\ nobs = 0 /\ n_filtered = 0 /\ n_started = 0 /\ n_done = 0
    /\ n_scaled = 0 /\ reports = <<>> /\ written = <<>> /\ log = <<>>
    /\ at_call = <<>>

\* Lines 588-614: partialities from the loaded geometry, scalable flags, nobs.
InitialSelection ==
    /\ UNCHANGED NotDriver
    /\ pc = "loaded"
    /\ LET upd == [c \in Crystals |-> update_partialities_2(crystals[c], pmodel)]
       IN  /\ crystals' = SelectAll(upd)
           /\ nobs' = SumNobs(upd, NCrystals)
    /\ pc' = "scale0"
    /\ UNCHANGED <<full, reference, have_reference, pmodel, n_iter,
                   min_measurements, i, n_filtered, n_started, n_done, n_scaled,
                   reports, written, log, at_call>>

\* Lines 616-632: the initial scaling pass, report 0, entry of the loop.
InitialScale ==
    /\ UNCHANGED NotDriver
    /\ pc = "scale0"
    /\ full' = scale_intensities(crystals, min_measurements)
    /\ n_scaled' = n_scaled + 1
    /\ n_filtered' = 0
    /\ reports' = Append(reports, 0)
    /\ log' = log \o <<<<"scale", 0>>, <<"report", 0>>>>
    /\ i' = 0
    /\ pc' = IF LoopContinues(0, n_iter) THEN "select" ELSE "write"
    /\ UNCHANGED <<crystals, reference, have_reference, pmodel, n_iter,
                   min_measurements, nobs, n_started, n_done, written, at_call>>

\* Lines 641-648: reset n_filtered, choose comp, select refinable reflections.
SelectForRefinement ==
    /\ UNCHANGED NotDriver
    /\ pc = "select"
    /\ n_filtered' = 0
    /\ crystals' = select_reflections_for_refinement(crystals, Comp, have_reference)
    /\ log' = Append(log, <<"select", i + 1>>)
    /\ pc' = IF AbortsAt(crystals, Comp) = {} THEN "refine" ELSE "aborted"
    /\ UNCHANGED <<full, reference, have_reference, pmodel, n_iter,
                   min_measurements, i, nobs, n_started, n_done, n_scaled,
                   reports, written, at_call>>

\* Lines 138-162: refine_all up to run_threads.
RefineAllEnter ==
    /\ UNCHANGED NotDriver
    /\ pc = "refine"
    /\ at_call' = <<crystals, n_filtered>>
    /\ IF NoRefinement(pmodel)
       THEN /\ pc' = "reselect"
            /\ UNCHANGED <<n_started, n_done>>
       ELSE /\ pc' = "refining"
            /\ n_started' = 0
            /\ n_done' = 0
    /\ UNCHANGED <<crystals, full, reference, have_reference, pmodel, n_iter,
                   min_measurements, i, nobs, n_filtered, n_scaled, reports,
                   written, log>>

\* One task of the pool: get_image, refine_image, done_image.
RefineTask ==
    /\ UNCHANGED NotDriver
    /\ pc = "refining"
    /\ n_started < NCrystals
    /\ LET c == n_started + 1
       IN  \E out \in pr_refine(crystals[c]) :
              /\ crystals' = [crystals EXCEPT ![c] = out.crystal]
              /\ n_filtered' = n_filtered + out.n_filtered
              /\ log' = Append(log, <<"refine", c>>)
    /\ n_started' = n_started + 1
    /\ n_done' = n_done + 1
    /\ UNCHANGED <<pc, full, reference, have_reference, pmodel, n_iter,
                   min_measurements, i, nobs, n_scaled, reports, written, at_call>>

\* run_threads returns once every task is done.
RefineAllReturn ==
    /\ UNCHANGED NotDriver
    /\ pc = "refining"
    /\ n_done = NCrystals
    /\ pc' = "reselect"
    /\ UNCHANGED <<crystals, full, reference, have_reference, pmodel, n_iter,
                   min_measurements, i, nobs, n_filtered, n_started, n_done,
                   n_scaled, reports, written, log, at_call>>

\* Lines 652-667: scalable flags and nobs after refinement.
Reselect ==
    /\ UNCHANGED NotDriver
    /\ pc = "reselect"
    /\ crystals' = SelectAll(crystals)
    /\ nobs' = SumNobs(crystals, NCrystals)
    /\ pc' = "rescale"
    /\ UNCHANGED <<full, reference, have_reference, pmodel, n_iter,
                   min_measurements, i, n_filtered, n_started, n_done, n_scaled,
                   reports, written, log, at_call>>

\* Lines 676-686: re-estimate the full intensities, report i+1, next cycle.
ReScale ==
    /\ UNCHANGED NotDriver
    /\ pc = "rescale"
    /\ full' = scale_intensities(crystals, min_measurements)
    /\ n_scaled' = n_scaled + 1
    /\ reports' = Append(reports, i + 1)
    /\ log' = log \o <<<<"scale", i + 1>>, <<"report", i + 1>>>>
    /\ i' = i + 1
    /\ pc' = IF LoopContinues(i + 1, n_iter) THEN "select" ELSE "write"
    /\ UNCHANGED <<crystals, reference, have_reference, pmodel, n_iter,
                   min_measurements, nobs, n_filtered, n_started, n_done,
                   written, at_call>>

\* Lines 688-691: write_reflist(outfile, full).
WriteOutput ==
    /\ UNCHANGED NotDriver
    /\ pc = "write"
    /\ written' = Append(written, full)
    /\ log' = Append(log, <<"write", n_scaled - 1>>)
    /\ pc' = "done"
    /\ UNCHANGED <<crystals, full, reference, have_reference, pmodel, n_iter,
                   min_measurements, i, nobs, n_filtered, n_started, n_done,
                   n_scaled, reports, at_call>>

DriverNext ==
    \/ InitialSelection
    \/ InitialScale
    \/ SelectForRefinement
    \/ RefineAllEnter
    \/ RefineTask
    \/ RefineAllReturn
    \/ Reselect
    \/ ReScale
    \/ WriteOutput

vars == <<dvars, fvars, lvars, pvars, rvars, svars, tvars>>

\* The figure-of-merit variables while the merge driver runs.
FomIdle ==
    /\ fpc = "idle"
    /\ list1 = EmptyList /\ list2 = EmptyList /\ given = <<>>
    /\ sym = "1" /\ sel = <<>>
    /\ list1_acc = EmptyList /\ list2_acc = EmptyList /\ ncom = 0
    /\ leaked = <<>> /\ fom = "none" /\ noscale = FALSE
    /\ shellp = <<>> /\ shells = <<>> /\ fctx = <<>> /\ fres = <<>>

Init == DriverInit /\ FomIdle /\ LoadIdle /\ PoolIdle /\ FileIdle /\ FlagsIdle /\ ToolsIdle

Next == DriverNext

Spec == Init /\ [][Next]_vars

\* =================================================== figure-of-merit engine

\* The merge driver's variables while the figure-of-merit engine runs.
DriverIdle ==
    /\ pc = "idle"
    /\ crystals = <<>> /\ full = EmptyList /\ reference = EmptyList
    /\ have_reference = FALSE /\ pmodel = PMODEL_UNITY /\ n_iter = 0
    /\ min_measurements = 1 /\ i = 0 /\ nobs = 0 /\ n_filtered = 0
    /\ n_started = 0 /\ n_done = 0 /\ n_scaled = 0
    /\ reports = <<>> /\ written = <<>> /\ log = <<>> /\ at_call = <<>>

\* The six programs' variables while a library function is looked at.
ProgramsIdle ==
    DriverIdle /\ FomIdle /\ LoadIdle /\ PoolIdle /\ FileIdle /\ FlagsIdle

\* ------------------------------------------------- indices and point groups

\* The Miller indices of the two lists: axis reflections of a cubic cell.
FHKL == {<<1, 0, 0>>, <<-1, 0, 0>>, <<0, 0, 2>>, <<0, 0, -2>>}

\* first_refl/next_refl visit a list in this order.
IterOrder == << <<-1, 0, 0>>, <<0, 0, -2>>, <<0, 0, 2>>, <<1, 0, 0>> >>

\* Point group 1 (identity only) and 2 (two-fold axis along c).
PointGroups == {"1", "2"}

Equivs(h, pg) ==
    IF pg = "2" THEN {h, <<0 - h[1], 0 - h[2], h[3]>>} ELSE {h}

\* (-h,-k,-l)
Friedel(h) == <<0 - h[1], 0 - h[2], 0 - h[3]>>

\* is_centric(h, k, l, sym)
is_centric(h, pg) == Friedel(h) \in Equivs(h, pg)

\* The asymmetric unit the lists are folded into.
AsymUnit(pg) == IF pg = "2" THEN FHKL \ {<<-1, 0, 0>>} ELSE FHKL

EquivsInList(list, h, pg) == {e \in Equivs(h, pg) : e \in DOMAIN list}

\* find_equiv_in_list(list, h, k, l, sym, &hb, &kb, &lb): found or not, and
\* the equivalent it reports.
find_equiv_in_list(list, h, pg) == EquivsInList(list, h, pg) # {}

EquivFound(list, h, pg) == CHOOSE e \in EquivsInList(list, h, pg) : TRUE

Abs(x) == IF x < 0 THEN 0 - x ELSE x

Cube(x) == x * x * x

\* 2.0*resolution(cell, h, k, l) for an axis reflection of a cubic cell of
\* unit edge.  Every resolution value of the model (this one, the limits of
\* the selection, the limits of the shells) is held as its cube, which keeps
\* the order of the values and makes the shell boundaries integers.
Res3(h) == Cube(Abs(h[1]) + Abs(h[2]) + Abs(h[3]))

\* ------------------------------------------------- fom_select_reflections

\* Mutant: a pair exactly at the cutoff is rejected.
SigmaReject_Inclusive(val, sigma_cutoff, esd) == val <= sigma_cutoff * esd

\* val < sigma_cutoff * esd
SigmaReject(val, sigma_cutoff, esd) == val < sigma_cutoff * esd

\* Lines 952-1008: the pair (h in list1, its namesake in list2) passes every
\* rejection test and reaches add_refl.
PassesFirst(l1, l2, h, p) ==
    /\ h \in DOMAIN l2
    /\ ~ (\/ SigmaReject(l1[h].intensity, p.sigma_cutoff, l1[h].esd)
          \/ SigmaReject(l2[h].intensity, p.sigma_cutoff, l2[h].esd))
    /\ ~ (p.ignore_negs /\ (l1[h].intensity < 0 \/ l2[h].intensity < 0))
    /\ ~ (l1[h].redundancy < p.mul_cutoff \/ l2[h].redundancy < p.mul_cutoff)
    /\ ~ (p.rmin_fix > 0 /\ Res3(h) < p.rmin_fix)
    /\ ~ (p.rmax_fix > 0 /\ Res3(h) > p.rmax_fix)

\* Lines 981-992: the value stored in the accepted copy.
ZeroNeg(val, p) == IF p.zero_negs /\ val < 0 THEN 0 ELSE val

\* add_refl + copy_data + set_intensity into an accepted list.
AddCopies(acc, src, S, p) ==
    [h \in DOMAIN acc \cup S |->
        IF h \in S
        THEN [src[h] EXCEPT !.intensity = ZeroNeg(src[h].intensity, p)]
        ELSE acc[h]]

\* Lines 938-1020, on the lists the caller passed as list1_acc, list2_acc.
FirstPass(l1, l2, acc1, acc2, p) ==
    LET S == {h \in DOMAIN l1 : PassesFirst(l1, l2, h, p)}
    IN  [list1_acc |-> AddCopies(acc1, l1, S, p),
         list2_acc |-> AddCopies(acc2, l2, S, p),
         ncom |-> Cardinality(S)]

\* Lines 1033-1085: the Bijvoet pass over the lists of the first pass; what it
\* accepts goes into two lists made by reflist_new().
SecondPass(a1, a2, pg) ==
    LET S == {h \in DOMAIN a1 :
                 /\ ~ is_centric(h, pg)
                 /\ find_equiv_in_list(a1, Friedel(h), pg)
                 /\ find_equiv_in_list(a2, Friedel(h), pg)}
    IN  [list1_acc |-> [h \in S |-> a1[h]],
         list2_acc |-> [h \in S |-> a2[h]],
         ncom |-> Cardinality(S)]

\* fom_select_reflections: what the caller's two accepted lists hold on return,
\* the return value, and the lists the function made for itself.  With anom
\* set, lines 1026-1029 rebind the parameters list1_acc and list2_acc to new
\* lists: the caller's lists keep the first pass, the new lists are not handed
\* back, and ncom is the count of the second pass.
fom_select_reflections(l1, l2, acc1, acc2, pg, p) ==
    LET first == FirstPass(l1, l2, acc1, acc2, p)
        second == SecondPass(first.list1_acc, first.list2_acc, pg)
    IN  [list1_acc |-> first.list1_acc,
         list2_acc |-> first.list2_acc,
         ncom |-> IF p.anom THEN second.ncom ELSE first.ncom,
         leaked |-> IF p.anom THEN <<second.list1_acc, second.list2_acc>>
                    ELSE <<>>]

\* Reflection data: intensity, its sigma, redundancy, flag; nan says that the
\* intensity and the sigma are not-a-number.
Refl(intensity, esd, redundancy) ==
    [intensity |-> intensity, esd |-> esd, redundancy |-> redundancy,
     flag |-> 0, nan |-> FALSE]

\* What the two lists hold for one index.
SelPairs == {"none", "both", "only1", "neg1", "weak2"}

SelRefl1(o) == IF o = "neg1" THEN Refl(-64, 64, 2) ELSE Refl(1024, 64, 2)

SelRefl2(o) == IF o = "weak2" THEN Refl(64, 64, 1) ELSE Refl(1024, 64, 2)

SelList1(opt) ==
    [h \in {x \in DOMAIN opt : opt[x] # "none"} |-> SelRefl1(opt[h])]

SelList2(opt) ==
    [h \in {x \in DOMAIN opt : opt[x] \notin {"none", "only1"}} |->
        SelRefl2(opt[h])]

\* The selection policies: no sigma cutoff (a very negative one) or 1 sigma,
\* no resolution limit (0) or one between the two resolutions of FHKL.
SelParams ==
    [anom : BOOLEAN, sigma_cutoff : {-100, 1}, ignore_negs : BOOLEAN,
     zero_negs : BOOLEAN, mul_cutoff : {0, 2}, rmin_fix : {0, 8},
     rmax_fix : {0, 1}]

NoShells == [nshells |-> 0]

NullCtx == [status |-> "null"]

NoResult == [call |-> "none"]

SelInit ==
    /\ DriverIdle /\ LoadIdle /\ PoolIdle /\ FileIdle /\ FlagsIdle
    /\ ToolsIdle
    /\ fpc = "select"
    /\ sym \in PointGroups
    /\ \E opt \in [AsymUnit(sym) -> SelPairs] :
          /\ list1 = SelList1(opt)
          /\ list2 = SelList2(opt)
    /\ given = [list1 |-> list1, list2 |-> list2]
    /\ sel \in SelParams
    /\ list1_acc = EmptyList /\ list2_acc = EmptyList
    /\ ncom = 0 /\ leaked = <<>>
    /\ fom = "none" /\ noscale = FALSE /\ shellp = <<>>
    /\ shells = NoShells /\ fctx = NullCtx /\ fres = NoResult

\* The caller makes two empty lists and calls fom_select_reflections.
Select ==
    /\ fpc = "select"
    /\ LET r == fom_select_reflections(list1, list2, list1_acc, list2_acc,
                                        sym, sel)
       IN  /\ list1_acc' = r.list1_acc
           /\ list2_acc' = r.list2_acc
           /\ ncom' = r.ncom
           /\ leaked' = r.leaked
    /\ fpc' = "selected"
    /\ UNCHANGED <<list1, list2, given, sym, sel, fom, noscale, shellp,
                   shells, fctx, fres>>
    /\ UNCHANGED NotFom

SelNext == Select

SpecSel == SelInit /\ [][SelNext]_vars

\* ----------------------------------------------------------------- numbers

\* A double: finite (an integer here), not-a-number, or infinite.
D(v) == [t |-> "fin", v |-> v]
NaN == [t |-> "nan", v |-> 0]
PlusInf == [t |-> "inf", v |-> 0]

DAdd(a, b) ==
    IF a.t = "nan" \/ b.t = "nan" THEN NaN
    ELSE IF a.t = "inf" \/ b.t = "inf" THEN PlusInf
    ELSE D(a.v + b.v)

\* Mutant: the two values added where the code subtracts them.
DSub_AsSum(a, b) == DAdd(a, b)

DSub(a, b) ==
    IF a.t = "nan" \/ b.t = "nan" \/ (a.t = "inf" /\ b.t = "inf") THEN NaN
    ELSE IF a.t = "inf" \/ b.t = "inf" THEN PlusInf
    ELSE D(a.v - b.v)

\* fabs
DAbs(a) == IF a.t = "fin" THEN D(Abs(a.v)) ELSE a

\* pow(x, 2.0)
DSq(a) == IF a.t = "fin" THEN D(a.v * a.v) ELSE a

\* x/2.0 (the intensities of the model are even)
DHalf(a) == IF a.t = "fin" THEN D(a.v \div 2) ELSE a

\* The square root of 0 or of a power of 4, which is what the intensities of
\* the model are.
RECURSIVE Sqrt4(_)
Sqrt4(v) == IF v <= 1 THEN v ELSE 2 * Sqrt4(v \div 4)

\* sqrt: not-a-number for a negative argument
DSqrt(a) ==
    IF a.t # "fin" THEN a
    ELSE IF a.v < 0 THEN NaN
    ELSE D(Sqrt4(a.v))

RECURSIVE GCD(_, _)
GCD(a, b) == IF b = 0 THEN a ELSE GCD(b, a % b)

\* a/b as a double: not-a-number, infinite, or a fraction in lowest terms
\* with a positive denominator.
Quot(a, b) ==
    IF a.t = "nan" \/ b.t = "nan" \/ (a.t = "inf" /\ b.t = "inf")
    THEN [t |-> "nan", num |-> 0, den |-> 0]
    ELSE IF a.t = "inf" THEN [t |-> "inf", num |-> 1, den |-> 0]
    ELSE IF b.t = "inf" THEN [t |-> "fin", num |-> 0, den |-> 1]
    ELSE IF b.v = 0
    THEN IF a.v = 0 THEN [t |-> "nan", num |-> 0, den |-> 0]
         ELSE [t |-> "inf", num |-> IF a.v < 0 THEN -1 ELSE 1, den |-> 0]
    ELSE LET g == GCD(Abs(a.v), Abs(b.v))
             s == IF b.v < 0 THEN -1 ELSE 1
         IN  [t |-> "fin", num |-> s * (a.v \div g), den |-> s * (b.v \div g)]

\* get_intensity, get_esd_intensity
GetI(r) == IF r.nan THEN NaN ELSE D(r.intensity)
GetS(r) == IF r.nan THEN NaN ELSE D(r.esd)

\* ------------------------------------------------------- resolution shells

MaxShells == 2          \* largest number of shells explored

\* The loop of lines 648-660.  A boundary r is held as nshells * r^3:
\* r^3 = vol_per_shell + rmins[i-1]^3, with nshells * vol_per_shell the
\* total volume rmax^3 - rmin^3 (rmin and rmax are given as cubes).
RECURSIVE ShellMin(_, _, _, _)
ShellMin(rmin, rmax, nshells, j) ==
    IF j = 0 THEN nshells * rmin
    ELSE (rmax - rmin) + ShellMin(rmin, rmax, nshells, j - 1)

fom_make_resolution_shells(rmin, rmax, nshells) ==
    [nshells |-> nshells,
     rmins |-> [j \in 0..(nshells - 1) |-> ShellMin(rmin, rmax, nshells, j)],
     rmaxs |-> [j \in 0..(nshells - 1) |->
                   IF j = nshells - 1 THEN nshells * rmax
                   ELSE ShellMin(rmin, rmax, nshells, j + 1)]]

\* Mutant: the shells closed below and open above.
InShell_UpperOpen(s, d, j) == d >= s.rmins[j] /\ d < s.rmaxs[j]

\* (d>s->rmins[j]) && (d<=s->rmaxs[j])
InShell(s, d, j) == d > s.rmins[j] /\ d <= s.rmaxs[j]

\* Mutant: no shell for a d that none of the shells holds.
get_bin_NoFallback(s, h) ==
    LET d == s.nshells * Res3(h)
        hits == {j \in 0..(s.nshells - 1) : InShell(s, d, j)}
    IN  IF hits # {} THEN CHOOSE j \in hits : \A k \in hits : j <= k
        ELSE -1

\* get_bin: the first shell that holds d, else shell 0 for a d at or beyond
\* the ends; -1 is where the assertion of line 693 stands.
get_bin(s, h) ==
    LET d == s.nshells * Res3(h)
        hits == {j \in 0..(s.nshells - 1) : InShell(s, d, j)}
    IN  IF hits # {} THEN CHOOSE j \in hits : \A k \in hits : j <= k
        ELSE IF d <= s.rmins[0] THEN 0
        ELSE IF d >= s.rmaxs[s.nshells - 1] THEN 0
        ELSE -1

\* ----------------------------------------------------------- Wilson scaling

RECURSIVE Log4(_)
Log4(v) == IF v <= 1 THEN 0 ELSE 1 + Log4(v \div 4)

RECURSIVE Pow4(_)
Pow4(m) == IF m = 0 THEN 1 ELSE 4 * Pow4(m - 1)

\* v * 4^m
Scale4(v, m) == IF m >= 0 THEN v * Pow4(m) ELSE v \div Pow4(0 - m)

\* The sum of y[n] = log(Ih1/Ih2), in units of log 4, over a set of indices.
RECURSIVE SumLogRatio(_, _, _)
SumLogRatio(S, l1, l2) ==
    IF S = {} THEN 0
    ELSE LET h == CHOOSE x \in S : TRUE
         IN  Log4(l1[h].intensity) - Log4(l2[h].intensity)
             + SumLogRatio(S \ {h}, l1, l2)

\* What the process does when it meets a null pointer the code asserts
\* against: the assertion aborts it, or (assertions compiled out) it faults.
Fail(ndebug) == IF ndebug THEN "crash" ELSE "abort"

\* wilson_scale(list1, list2, cell): r is the return value ("0", "1") or how
\* the process ended.  The straight line gsl_fit_linear puts through points
\* that have two distinct abscissae passes through the mean ordinate of each,
\* so the correction at a resolution is 4^(mean log ratio there); with a
\* single abscissa the fit divides 0 by 0 and every corrected value is NaN.
wilson_scale(l1, l2, ndebug) ==
    LET usable == {h \in DOMAIN l1 \cap DOMAIN l2 :
                       l1[h].intensity > 0 /\ l2[h].intensity > 0}
        xs == {Res3(h) : h \in usable}
        at(x) == {h \in usable : Res3(h) = x}
        mean(x) == SumLogRatio(at(x), l1, l2) \div Cardinality(at(x))
    IN  IF \E h \in DOMAIN l1 : h \notin DOMAIN l2
        THEN [r |-> Fail(ndebug), list2 |-> l2]
        ELSE IF Cardinality(usable) < 2
        THEN [r |-> "1", list2 |-> l2]
        ELSE IF Cardinality(xs) < 2
        THEN [r |-> "0",
              list2 |-> [h \in DOMAIN l2 |-> [l2[h] EXCEPT !.nan = TRUE]]]
        ELSE [r |-> "0",
              list2 |-> [h \in DOMAIN l2 |->
                  [l2[h] EXCEPT
                      !.intensity = Scale4(@, mean(Res3(h))),
                      !.esd = Scale4(@, mean(Res3(h)))]]]

\* ------------------------------------------------------------ accumulation

FomTypes == {"R1I", "R1F", "R2", "RSPLIT", "RANO", "D1SIG", "D2SIG"}

\* The kinds that need the Bijvoet partner (lines 866-867).
IsAnomalous(f) == f \in {"CCANO", "CRDANO", "RANO", "RANORSPLIT"}

CountsWithin(f) == f \in {"D1SIG", "D2SIG"}

\* init_fom(fom, nmax, nshells).  binof notes, for each reflection handed to
\* add_to_fom, the bin it was handed with.
init_fom(f, nshells) ==
    [status |-> "ok", fom |-> f, nshells |-> nshells,
     cts |-> [j \in 0..(nshells - 1) |-> 0],
     num |-> [j \in 0..(nshells - 1) |-> D(0)],
     den |-> [j \in 0..(nshells - 1) |-> D(0)],
     num2 |-> [j \in 0..(nshells - 1) |-> D(0)],
     den2 |-> [j \in 0..(nshells - 1) |-> D(0)],
     n_within |-> [j \in 0..(nshells - 1) |-> 0],
     vec1 |-> [j \in 0..(nshells - 1) |-> <<>>],
     vec2 |-> [j \in 0..(nshells - 1) |-> <<>>],
     binof |-> EmptyList]

\* fabs(i1-i2) < k*sqrt(sig1*sig1 + sig2*sig2), false when anything is NaN
Within(i1, i2, sig1, sig2, k) ==
    /\ i1.t = "fin" /\ i2.t = "fin" /\ sig1.t = "fin" /\ sig2.t = "fin"
    /\ (i1.v - i2.v) * (i1.v - i2.v)
          < k * k * (sig1.v * sig1.v + sig2.v * sig2.v)

\* The term add_to_fom adds to num[bin]
NumTerm(f, i1, i2, i1bij, i2bij) ==
    CASE f = "R1I" -> DAbs(DSub(i1, i2))
      [] f = "R1F" -> DAbs(DSub(DSqrt(i1), DSqrt(i2)))
      [] f = "R2" -> DSq(DSub(i1, i2))
      [] f = "RSPLIT" -> DAbs(DSub(i1, i2))
      [] f \in {"RANO", "RANORSPLIT"} ->
            DAbs(DSub(DHalf(DAdd(i1, i2)), DHalf(DAdd(i1bij, i2bij))))
      [] OTHER -> D(0)

\* The term add_to_fom adds to den[bin]
DenTerm(f, i1, i2, i1bij, i2bij) ==
    CASE f = "R1I" -> i1
      [] f = "R1F" -> DSqrt(i1)
      [] f = "R2" -> DSq(i1)
      [] f = "RSPLIT" -> DAdd(i1, i2)
      [] f \in {"RANO", "RANORSPLIT"} ->
            DAdd(DHalf(DAdd(i1, i2)), DHalf(DAdd(i1bij, i2bij)))
      [] OTHER -> D(0)

\* The terms add_to_fom adds to num2[bin] and den2[bin] (FOM_RANORSPLIT,
\* before it falls through to FOM_RANO).
Num2Term(f, i1, i2) == IF f = "RANORSPLIT" THEN DAbs(DSub(i1, i2)) ELSE D(0)

Den2Term(f, i1, i2) == IF f = "RANORSPLIT" THEN DAdd(i1, i2) ELSE D(0)

\* fctx->vec1[bin][fctx->n[bin]] = i1 - i1bij; (n[bin] is the length)
VecTerm(f, v, vbij) == IF f \in {"CCANO", "CRDANO"} THEN <<DSub(v, vbij)>> ELSE <<>>

add_to_fom(ctx, i1, i2, i1bij, i2bij, sig1, sig2, bin) ==
    [ctx EXCEPT
        !.cts[bin] = @ + 1,
        !.vec1[bin] = @ \o VecTerm(ctx.fom, i1, i1bij),
        !.vec2[bin] = @ \o VecTerm(ctx.fom, i2, i2bij),
        !.num2[bin] = DAdd(@, Num2Term(ctx.fom, i1, i2)),
        !.den2[bin] = DAdd(@, Den2Term(ctx.fom, i1, i2)),
        !.num[bin] = DAdd(@, NumTerm(ctx.fom, i1, i2, i1bij, i2bij)),
        !.den[bin] = DAdd(@, DenTerm(ctx.fom, i1, i2, i1bij, i2bij)),
        !.n_within[bin] =
            IF \/ ctx.fom = "D1SIG" /\ Within(i1, i2, sig1, sig2, 1)
               \/ ctx.fom = "D2SIG" /\ Within(i1, i2, sig1, sig2, 2)
            THEN @ + 1 ELSE @]

\* Mutant: the flags left as they are.
SetFlag_Nothing(list, S, v) == list

\* set_flag(refl, v) for the reflections S of a list
SetFlag(list, S, v) ==
    [h \in DOMAIN list |-> IF h \in S THEN [list[h] EXCEPT !.flag = v] ELSE list[h]]

Ended(st, how) == [st EXCEPT !.ctx = [status |-> how]]

\* One turn of the loop of lines 839-910, for the reflection h of list1.
Visit(st, sh, pg, ndebug, h) ==
    IF st.ctx.status # "ok" \/ h \notin DOMAIN st.list1 THEN st
    ELSE IF h \notin DOMAIN st.list2 THEN st
    ELSE
    LET l1 == st.list1
        l2 == st.list2
        bin == get_bin(sh, h)
        i1 == GetI(l1[h])
        i2 == GetI(l2[h])
        sig1 == GetS(l1[h])
        sig2 == GetS(l2[h])
    IN  IF bin = -1 THEN (IF ndebug THEN st ELSE Ended(st, "abort"))
        ELSE IF ~ IsAnomalous(st.ctx.fom)
        THEN [st EXCEPT
                 !.ctx = [add_to_fom(st.ctx, i1, i2, PlusInf, PlusInf,
                                     sig1, sig2, bin)
                             EXCEPT !.binof = (h :> bin) @@ @]]
        ELSE IF l1[h].flag = 1 THEN st
        ELSE IF l2[h].flag = 1 /\ ~ ndebug THEN Ended(st, "abort")
        ELSE IF \/ ~ find_equiv_in_list(l1, Friedel(h), pg)
                \/ ~ find_equiv_in_list(l2, Friedel(h), pg)
        THEN Ended(st, "crash")
        ELSE LET b1 == EquivFound(l1, Friedel(h), pg)
                 b2 == EquivFound(l2, Friedel(h), pg)
             IN  [ctx |-> [add_to_fom(st.ctx, i1, i2, GetI(l1[b1]),
                                      GetI(l2[b2]), sig1, sig2, bin)
                              EXCEPT !.binof = (h :> bin) @@ @],
                  list1 |-> SetFlag(l1, {h, b1}, 1),
                  list2 |-> SetFlag(l2, {h, b2}, 1)]

RECURSIVE SecondLoop(_, _, _, _, _)
SecondLoop(st, sh, pg, ndebug, k) ==
    IF k > Len(IterOrder) THEN st
    ELSE SecondLoop(Visit(st, sh, pg, ndebug, IterOrder[k]), sh, pg, ndebug,
                    k + 1)

\* fom_calculate: the context it returns (status "null" for NULL, "abort" or
\* "crash" when the process ends inside the call) and the two lists after it.
fom_calculate(l1, l2, sh, f, nosc, pg, ndebug) ==
    LET w == IF nosc THEN [r |-> "0", list2 |-> l2]
             ELSE wilson_scale(l1, l2, ndebug)
    IN  IF w.r \in {"abort", "crash"}
        THEN [ctx |-> [status |-> w.r], list1 |-> l1, list2 |-> l2]
        ELSE IF w.r = "1"
        THEN [ctx |-> NullCtx, list1 |-> l1, list2 |-> l2]
        ELSE IF \E h \in DOMAIN l1 : h \notin DOMAIN w.list2
        THEN [ctx |-> [status |-> Fail(ndebug)], list1 |-> l1,
              list2 |-> w.list2]
        ELSE SecondLoop([ctx |-> init_fom(f, sh.nshells),
                         list1 |-> SetFlag(l1, DOMAIN l1, 0),
                         list2 |-> SetFlag(w.list2, DOMAIN l1, 0)],
                        sh, pg, ndebug, 1)

\* ---------------------------------------------------------------- read-out

ShellNum(ctx, j) == IF CountsWithin(ctx.fom) THEN D(ctx.n_within[j]) ELSE ctx.num[j]

ShellDen(ctx, j) == IF CountsWithin(ctx.fom) THEN D(ctx.cts[j]) ELSE ctx.den[j]

\* The expression the quotient q = num/den goes through on the way out.
Form(f) ==
    CASE f = "R2" -> "sqrt(q)"
      [] f = "RSPLIT" -> "2q/sqrt(2)"
      [] f = "RANO" -> "2q"
      [] f = "RANORSPLIT" -> "sqrt(2)q"
      [] OTHER -> "q"

Value(f, q) == [form |-> Form(f), q |-> q]

\* overall_num += ...; overall_den += ... over the shells 0..j
RECURSIVE OverallNum(_, _)
OverallNum(ctx, j) ==
    IF j < 0 THEN D(0) ELSE DAdd(OverallNum(ctx, j - 1), ShellNum(ctx, j))

RECURSIVE OverallDen(_, _)
OverallDen(ctx, j) ==
    IF j < 0 THEN D(0) ELSE DAdd(OverallDen(ctx, j - 1), ShellDen(ctx, j))

\* overall_num2 += ...; overall_den2 += ... over the shells 0..j
RECURSIVE OverallNum2(_, _)
OverallNum2(ctx, j) ==
    IF j < 0 THEN D(0) ELSE DAdd(OverallNum2(ctx, j - 1), ctx.num2[j])

RECURSIVE OverallDen2(_, _)
OverallDen2(ctx, j) ==
    IF j < 0 THEN D(0) ELSE DAdd(OverallDen2(ctx, j - 1), ctx.den2[j])

\* p/q for two doubles held as fractions.
QDiv(p, q) ==
    IF p.t = "nan" \/ q.t = "nan" \/ (p.t = "inf" /\ q.t = "inf")
    THEN [t |-> "nan", num |-> 0, den |-> 0]
    ELSE IF p.t = "inf"
    THEN [t |-> "inf", num |-> IF q.num < 0 THEN 0 - p.num ELSE p.num,
          den |-> 0]
    ELSE IF q.t = "inf" THEN [t |-> "fin", num |-> 0, den |-> 1]
    ELSE Quot(D(p.num * q.den), D(p.den * q.num))

\* (2.0*num/den) / (2.0*(num2/den2)/sqrt(2.0)) is sqrt(2) times the quotient
\* of the two quotients.
RanoOverRsplit(num, den, num2, den2) ==
    QDiv(Quot(num, den), Quot(num2, den2))

fom_shell(ctx, j) ==
    IF ctx.fom = "RANORSPLIT"
    THEN Value(ctx.fom, RanoOverRsplit(ctx.num[j], ctx.den[j], ctx.num2[j],
                                       ctx.den2[j]))
    ELSE Value(ctx.fom, Quot(ShellNum(ctx, j), ShellDen(ctx, j)))

\* The sum of two doubles held as fractions.
QAdd(p, q) ==
    IF p.t = "nan" \/ q.t = "nan" THEN [t |-> "nan", num |-> 0, den |-> 0]
    ELSE IF p.t = "inf" \/ q.t = "inf"
    THEN (IF p.t = "inf" /\ q.t = "inf" /\ p.num # q.num
          THEN [t |-> "nan", num |-> 0, den |-> 0]
          ELSE IF p.t = "inf" THEN p ELSE q)
    ELSE Quot(D(p.num * q.den + q.num * p.den), D(p.den * q.den))

RECURSIVE SumOfShellQuots(_, _)
SumOfShellQuots(ctx, j) ==
    IF j < 0 THEN [t |-> "fin", num |-> 0, den |-> 1]
    ELSE QAdd(SumOfShellQuots(ctx, j - 1), fom_shell(ctx, j).q)

\* Mutant: the mean of the per-shell quotients.
fom_overall_MeanOfShells(ctx) ==
    LET s == SumOfShellQuots(ctx, ctx.nshells - 1)
    IN  Value(ctx.fom,
              IF s.t = "fin" THEN Quot(D(s.num), D(s.den * ctx.nshells)) ELSE s)

fom_overall(ctx) ==
    IF ctx.fom = "RANORSPLIT"
    THEN Value(ctx.fom,
               RanoOverRsplit(OverallNum(ctx, ctx.nshells - 1),
                              OverallDen(ctx, ctx.nshells - 1),
                              OverallNum2(ctx, ctx.nshells - 1),
                              OverallDen2(ctx, ctx.nshells - 1)))
    ELSE Value(ctx.fom, Quot(OverallNum(ctx, ctx.nshells - 1),
                             OverallDen(ctx, ctx.nshells - 1)))

\* ----------------------------------------------- the figure-of-merit caller

FomPairs == {"none", "same", "differ", "neg1", "only1"}

FomRefl1(o) == IF o = "neg1" THEN Refl(-64, 64, 2) ELSE Refl(1024, 64, 2)

FomRefl2(o) == IF o = "same" THEN Refl(1024, 64, 2) ELSE Refl(64, 64, 2)

FomList1(opt) ==
    [h \in {x \in DOMAIN opt : opt[x] # "none"} |-> FomRefl1(opt[h])]

FomList2(opt) ==
    [h \in {x \in DOMAIN opt : opt[x] \notin {"none", "only1"}} |->
        FomRefl2(opt[h])]

\* rmin and rmax of the shells, as cubes.
ShellParams == [rmin : {0, 1}, rmax : {2, 8, 16}, nshells : 1..MaxShells]

\* The calls made with one of the given kinds of figure of merit.
FomStart(kinds) ==
    /\ DriverIdle /\ LoadIdle /\ PoolIdle /\ FileIdle /\ FlagsIdle
    /\ ToolsIdle
    /\ fpc = "start"
    /\ sym \in PointGroups
    /\ \E opt \in [AsymUnit(sym) -> FomPairs] :
          /\ list1 = FomList1(opt)
          /\ list2 = FomList2(opt)
    /\ given = [list1 |-> list1, list2 |-> list2]
    /\ fom \in kinds
    /\ noscale \in BOOLEAN
    /\ shellp \in ShellParams
    /\ sel = <<>> /\ list1_acc = EmptyList /\ list2_acc = EmptyList
    /\ ncom = 0 /\ leaked = <<>>
    /\ shells = NoShells /\ fctx = NullCtx /\ fres = NoResult

FomInit == FomStart(FomTypes)

\* The calls that ask for Rano/Rsplit.
RatioInit == FomStart({"RANORSPLIT"})

MakeShells ==
    /\ fpc = "start"
    /\ shells' = fom_make_resolution_shells(shellp.rmin, shellp.rmax,
                                            shellp.nshells)
    /\ fpc' = "shells"
    /\ UNCHANGED <<list1, list2, given, sym, sel, list1_acc, list2_acc, ncom,
                   leaked, fom, noscale, shellp, fctx, fres>>
    /\ UNCHANGED NotFom

\* fom_calculate on the two lists, in a build with or without assertions.
Calculate ==
    /\ fpc = "shells"
    /\ \E ndebug \in BOOLEAN :
          LET r == fom_calculate(list1, list2, shells, fom, noscale, sym,
                                 ndebug)
          IN  /\ fctx' = r.ctx
              /\ list1' = r.list1
              /\ list2' = r.list2
    /\ fpc' = "calculated"
    /\ UNCHANGED <<given, sym, sel, list1_acc, list2_acc, ncom, leaked, fom,
                   noscale, shellp, shells, fres>>
    /\ UNCHANGED NotFom

Overall ==
    /\ fpc = "calculated"
    /\ fctx.status = "ok"
    /\ fres' = [call |-> "overall", bin |-> -1, val |-> fom_overall(fctx)]
    /\ fpc' = "overall"
    /\ UNCHANGED <<list1, list2, given, sym, sel, list1_acc, list2_acc, ncom,
                   leaked, fom, noscale, shellp, shells, fctx>>
    /\ UNCHANGED NotFom

Shell ==
    /\ fpc = "calculated"
    /\ fctx.status = "ok"
    /\ \E j \in 0..(fctx.nshells - 1) :
          fres' = [call |-> "shell", bin |-> j, val |-> fom_shell(fctx, j)]
    /\ fpc' = "shell"
    /\ UNCHANGED <<list1, list2, given, sym, sel, list1_acc, list2_acc, ncom,
                   leaked, fom, noscale, shellp, shells, fctx>>
    /\ UNCHANGED NotFom

FomNext ==
    \/ MakeShells
    \/ Calculate
    \/ Overall
    \/ Shell

SpecFom == FomInit /\ [][FomNext]_vars

SpecRatio == RatioInit /\ [][FomNext]_vars

\* Shell ranges around the resolutions of the lists: below them, above
\* them, empty and upside down as well.
BinParams == [rmin : {0, 1, 2, 27}, rmax : {1, 4, 8, 27}, nshells : 1..MaxShells]

\* The caller of fom_calculate with R1I and any of these ranges.
BinInit ==
    /\ DriverIdle /\ LoadIdle /\ PoolIdle /\ FileIdle /\ FlagsIdle
    /\ ToolsIdle
    /\ fpc = "start"
    /\ sym \in PointGroups
    /\ \E opt \in [AsymUnit(sym) -> FomPairs] :
          /\ list1 = FomList1(opt)
          /\ list2 = FomList2(opt)
    /\ given = [list1 |-> list1, list2 |-> list2]
    /\ fom = "R1I"
    /\ noscale \in BOOLEAN
    /\ shellp \in BinParams
    /\ sel = <<>> /\ list1_acc = EmptyList /\ list2_acc = EmptyList
    /\ ncom = 0 /\ leaked = <<>>
    /\ shells = NoShells /\ fctx = NullCtx /\ fres = NoResult

SpecBin == BinInit /\ [][FomNext]_vars

\* The figures of merit that compare Bijvoet partners.
AnoTypes == {"CCANO", "CRDANO", "RANO", "RANORSPLIT"}

AnoInit == FomStart(AnoTypes)

\* The calls up to fom_calculate.
AnoNext ==
    \/ MakeShells
    \/ Calculate

SpecAno == AnoInit /\ [][AnoNext]_vars

\* ====================================================== loading the stream

\* The point groups get_pointgroup knows, and a name it does not know.
KnownPointGroups == {"1", "2"}

SymNames == KnownPointGroups \cup {"bogus"}

\* get_pointgroup(sym_str): the operator list, or NULL for an unknown name.
get_pointgroup(name) == IF name \in KnownPointGroups THEN name ELSE "NULL"

\* asymmetric_indices(list, sym): the call returns, or the process dies in
\* it; with sym == NULL either can happen.
asymmetric_indices(sg) == IF sg = "NULL" THEN {"folded", "killed"} ELSE {"folded"}

\* A chunk of the stream: complete with beam parameters, complete without
\* them, or incomplete (no end marker, no filename or no photon energy).
ChunkKinds == {"good", "nobeam", "incomplete"}

Chunks == [kind : ChunkKinds, n_crystals : {0, 1, 2}]

Streams == UNION {[1..n -> Chunks] : n \in 0..MaxChunks}

\* read_chunk(st, cur): the return value, the chunks consumed, and what was
\* put into cur.  div and bw stay NAN when the chunk has no beam parameters.
read_chunk(strm, pos) ==
    IF pos >= Len(strm) THEN [r |-> 1, pos |-> pos]
    ELSE IF strm[pos + 1].kind = "incomplete" THEN [r |-> 1, pos |-> pos + 1]
    ELSE [r |-> 0, pos |-> pos + 1,
          beam_nan |-> strm[pos + 1].kind = "nobeam",
          n_crystals |-> strm[pos + 1].n_crystals]

\* isnan(cur->div) || isnan(cur->bw)
NoBeam(cur) == cur.beam_nan

PmodelNames == {"NULL", "sphere", "bogus"}

ReferenceFiles == {"NULL", "unreadable", "readable"}

\* main() after the options were read (line 440).
LoadInit ==
    /\ DriverIdle /\ FomIdle /\ PoolIdle /\ FileIdle /\ FlagsIdle
    /\ ToolsIdle
    /\ lpc = "options"
    /\ stream \in Streams
    /\ sym_str \in SymNames
    /\ pmodel_str \in PmodelNames
    /\ reference_file \in ReferenceFiles
    /\ n_read = 0 /\ lsym = "unset" /\ n_images = 0 /\ loaded = <<>>
    /\ folds = <<>> /\ lscaled = <<>> /\ status = "running"

\* Lines 462-475: the point group and the partiality model.
Setup ==
    /\ lpc = "options"
    /\ lsym' = get_pointgroup(sym_str)
    /\ IF pmodel_str \in {"NULL", "sphere", "unity"}
       THEN lpc' = "reference" /\ status' = status
       ELSE lpc' = "exit" /\ status' = "1"
    /\ UNCHANGED <<stream, n_read, sym_str, pmodel_str, reference_file,
                   n_images, loaded, folds, lscaled>>
    /\ UNCHANGED NotLoad

\* Lines 477-491: the reference list, read and folded.
ReadReference ==
    /\ lpc = "reference"
    /\ IF reference_file = "NULL"
       THEN lpc' = "loading" /\ UNCHANGED <<folds, status>>
       ELSE IF reference_file = "unreadable"
       THEN lpc' = "exit" /\ status' = "1" /\ folds' = folds
       ELSE \E out \in asymmetric_indices(lsym) :
               IF out = "folded"
               THEN /\ folds' = Append(folds, "reference")
                    /\ lpc' = "loading" /\ status' = status
               ELSE /\ folds' = folds
                    /\ lpc' = "exit" /\ status' = "killed"
    /\ UNCHANGED <<stream, n_read, sym_str, lsym, pmodel_str, reference_file,
                   n_images, loaded, lscaled>>
    /\ UNCHANGED NotLoad

\* The entries <<c, 1>> .. <<c, k>>
CrystalsOf(c, k) == [j \in 1..k |-> <<c, j>>]

\* Lines 500-580: one turn of the loop that reads the stream.
LoadChunk ==
    /\ lpc = "loading"
    /\ LET cur == read_chunk(stream, n_read)
       IN  /\ n_read' = cur.pos
           /\ IF cur.r # 0
              THEN /\ lpc' = "select"
                   /\ UNCHANGED <<n_images, loaded, folds, status>>
              ELSE IF NoBeam(cur)
              THEN /\ lpc' = "exit" /\ status' = "1"
                   /\ UNCHANGED <<n_images, loaded, folds>>
              ELSE /\ n_images' = n_images + 1
                   /\ \E k \in 0..cur.n_crystals :
                         /\ k < cur.n_crystals =>
                                "killed" \in asymmetric_indices(lsym)
                         /\ loaded' = loaded \o CrystalsOf(cur.pos, k)
                         /\ folds' = folds \o CrystalsOf(cur.pos, k)
                         /\ IF k < cur.n_crystals
                            THEN lpc' = "exit" /\ status' = "killed"
                            ELSE lpc' = "loading" /\ status' = status
    /\ UNCHANGED <<stream, sym_str, lsym, pmodel_str, reference_file, lscaled>>
    /\ UNCHANGED NotLoad

\* Lines 584-618: scalable flags of every loaded crystal and the initial
\* scale_intensities.
LoadedScale ==
    /\ lpc = "select"
    /\ lscaled' = loaded
    /\ lpc' = "scaled"
    /\ UNCHANGED <<stream, n_read, sym_str, lsym, pmodel_str, reference_file,
                   n_images, loaded, folds, status>>
    /\ UNCHANGED NotLoad

LoadNext ==
    \/ Setup
    \/ ReadReference
    \/ LoadChunk
    \/ LoadedScale

SpecLoad == LoadInit /\ [][LoadNext]_vars

\* ========================================================= the worker pool

\* -j values explored.
ThreadCounts == {1, 2, 3}

\* Mutant: the thread count left as given.
PoolSize_AsGiven(nthr, n) == nthr

\* if ( n_crystals < nthreads ) nthreads = n_crystals;
PoolSize(nthr, n) == IF n < nthr THEN n ELSE nthr

\* run_threads: a worker takes no further task once max tasks were started.
MaxReached(started, max) == started >= max

\* Mutant: the task's count stored, not added.
Accumulate_Stored(total, n) == n

\* qargs->srdata->n_filtered += pargs->prdata.n_filtered;
Accumulate(total, n) == total + n

\* main() as it calls refine_all in the first cycle, without a reference.
PoolInit ==
    /\ FomIdle /\ LoadIdle /\ FileIdle /\ FlagsIdle
    /\ ToolsIdle
    /\ pc = "refine"
    /\ have_reference = FALSE
    /\ reference = EmptyList
    /\ pmodel \in {PMODEL_UNITY, PMODEL_SPHERE}
    /\ n_iter = 1
    /\ min_measurements = 1
    /\ \E w \in 0..NRefl, g \in Geoms :
          LET c0 == [c \in Crystals |->
                       update_partialities_2(
                           LoadedCrystal(IF c = 1 THEN w ELSE 0, g), pmodel)]
              c1 == [c \in Crystals |->
                       [c0[c] EXCEPT !.refl =
                           select_scalable_reflections(c0[c].refl, EmptyList,
                                                       FALSE).list]]
              f == scale_intensities(c1, 1)
          IN  /\ full = f
              /\ crystals = select_reflections_for_refinement(c1, f, FALSE)
              /\ nobs = Cardinality({x \in Crystals \X HKL :
                                        c1[x[1]].refl[x[2]].scalable = 1})
    /\ i = 0 /\ n_filtered = 0 /\ n_started = 0 /\ n_done = 0
    /\ n_scaled = 1 /\ reports = <<0>> /\ written = <<>>
    /\ log = <<<<"scale", 0>>, <<"report", 0>>, <<"select", 1>>>>
    /\ at_call = <<>>
    /\ nthreads \in ThreadCounts
    /\ workers = <<>> /\ pool_started = 0 /\ handed = <<>> /\ results = <<>>

\* Lines 138-165: refine_all up to the start of the threads.
PoolEnter ==
    /\ pc = "refine"
    /\ at_call' = <<crystals, n_filtered>>
    /\ IF NoRefinement(pmodel)
       THEN /\ pc' = "reselect"
            /\ UNCHANGED <<n_started, n_done, workers, pool_started>>
       ELSE /\ pc' = "refining"
            /\ n_started' = 0
            /\ n_done' = 0
            /\ pool_started' = 0
            /\ workers' = [w \in 1..PoolSize(nthreads, NCrystals) |->
                              [st |-> "idle"]]
    /\ UNCHANGED <<crystals, full, reference, have_reference, pmodel, n_iter,
                   min_measurements, i, nobs, n_filtered, n_scaled, reports,
                   written, log, nthreads, handed, results>>
    /\ UNCHANGED NotPool

\* A worker asks for a task: get_image (lines 109-122) under the pool's
\* lock, unless the pool has started all of them.  handed notes the index
\* crystals[] is read at; an index past the end gives no crystal.
WorkerGet(w) ==
    /\ pc = "refining"
    /\ workers[w].st = "idle"
    /\ IF MaxReached(pool_started, NCrystals)
       THEN /\ workers' = [workers EXCEPT ![w] = [st |-> "exited"]]
            /\ UNCHANGED <<n_started, pool_started, handed>>
       ELSE /\ handed' = Append(handed, n_started)
            /\ workers' = [workers EXCEPT ![w] =
                  [st |-> "working",
                   crystal |-> IF n_started < NCrystals THEN n_started + 1
                               ELSE 0,
                   n_filtered |-> 0]]
            /\ n_started' = n_started + 1
            /\ pool_started' = pool_started + 1
    /\ UNCHANGED <<pc, crystals, full, reference, have_reference, pmodel,
                   n_iter, min_measurements, i, nobs, n_filtered, n_done,
                   n_scaled, reports, written, log, at_call, nthreads, results>>
    /\ UNCHANGED NotPool

\* refine_image (lines 100-106), outside the lock.
WorkerWork(w) ==
    /\ pc = "refining"
    /\ workers[w].st = "working"
    /\ LET c == workers[w].crystal
       IN  IF c = 0
           THEN /\ workers' = [workers EXCEPT ![w].st = "finishing"]
                /\ UNCHANGED crystals
           ELSE \E out \in pr_refine(crystals[c]) :
                   /\ crystals' = [crystals EXCEPT ![c] = out.crystal]
                   /\ workers' = [workers EXCEPT ![w] =
                         [st |-> "finishing", crystal |-> c,
                          n_filtered |-> out.n_filtered]]
    /\ UNCHANGED <<pc, full, reference, have_reference, pmodel, n_iter,
                   min_measurements, i, nobs, n_filtered, n_started, n_done,
                   n_scaled, reports, written, log, at_call, nthreads,
                   pool_started, handed, results>>
    /\ UNCHANGED NotPool

\* done_image (lines 125-135), under the pool's lock.
WorkerDone(w) ==
    /\ pc = "refining"
    /\ workers[w].st = "finishing"
    /\ n_done' = n_done + 1
    /\ n_filtered' = Accumulate(n_filtered, workers[w].n_filtered)
    /\ results' = Append(results, <<workers[w].crystal, workers[w].n_filtered>>)
    /\ workers' = [workers EXCEPT ![w] = [st |-> "idle"]]
    /\ UNCHANGED <<pc, crystals, full, reference, have_reference, pmodel,
                   n_iter, min_measurements, i, nobs, n_started, n_scaled,
                   reports, written, log, at_call, nthreads, pool_started,
                   handed>>
    /\ UNCHANGED NotPool

\* run_threads returns when every worker has left its loop.
PoolReturn ==
    /\ pc = "refining"
    /\ \A w \in DOMAIN workers : workers[w].st = "exited"
    /\ pc' = "reselect"
    /\ UNCHANGED <<crystals, full, reference, have_reference, pmodel, n_iter,
                   min_measurements, i, nobs, n_filtered, n_started, n_done,
                   n_scaled, reports, written, log, at_call>>
    /\ UNCHANGED pvars
    /\ UNCHANGED NotPool

PoolNext ==
    \/ PoolEnter
    \/ \E w \in DOMAIN workers : WorkerGet(w)
    \/ \E w \in DOMAIN workers : WorkerWork(w)
    \/ \E w \in DOMAIN workers : WorkerDone(w)
    \/ PoolReturn

SpecPool == PoolInit /\ [][PoolNext]_vars

\* =================================================== reflection table files

\* INDMAX is the largest index the tables hold.  The tables of the model
\* hold the reflections on the h and l axes.
Points ==
    {<<a, 0, 0>> : a \in (0 - INDMAX)..INDMAX}
        \cup {<<0, 0, a>> : a \in (0 - INDMAX)..INDMAX}

\* What a table holds for one reflection: the number of measurements and the
\* sum of their intensities in millionths: nothing, two measurements that
\* merge to 1.5, or three that merge to 33.333...
Stored == {[n |-> 0, s |-> 0], [n |-> 2, s |-> 3 * Micro],
           [n |-> 3, s |-> 100 * Micro]}

\* for ( h=-INDMAX; h<INDMAX; h++ )
InLoop(x) == (0 - INDMAX) <= x /\ x < INDMAX

\* a/b to the nearest integer, for a >= 0 and b > 0
RoundDiv(a, b) == (2 * a + b) \div (2 * b)

\* "%f" of intensity = lookup_intensity(ref, h, k, l) / N: the digits of the
\* quotient, six of them behind the point, as a number of millionths.
FormatF(s, n) == RoundDiv(s, n)

Less(p, q) ==
    \/ p[1] < q[1]
    \/ p[1] = q[1] /\ p[2] < q[2]
    \/ p[1] = q[1] /\ p[2] = q[2] /\ p[3] < q[3]

\* The lines of the reflections of S, in the order of the three loops.
RECURSIVE Lines(_, _, _)
Lines(S, cnt, rf) ==
    IF S = {} THEN <<>>
    ELSE LET p == CHOOSE x \in S : \A y \in S : x = y \/ Less(x, y)
         IN  <<[kind |-> "refl", h |-> p[1], k |-> p[2], l |-> p[3],
                i |-> FormatF(rf[p], cnt[p])]>>
                 \o Lines(S \ {p}, cnt, rf)

\* The lines in front of the reflections.
Header(zone) ==
    IF zone
    THEN <<[kind |-> "a"], [kind |-> "b"], [kind |-> "angle"],
           [kind |-> "scale"]>>
    ELSE <<[kind |-> "h k l I sigma(I) 1/d"]>>

\* write_reflections(filename, counts, ref, zone_axis, cell), with counts
\* given: the lines of the file.
write_reflections(cnt, rf, zone) ==
    Header(zone)
        \o Lines({p \in Points : /\ InLoop(p[1]) /\ InLoop(p[2]) /\ InLoop(p[3])
                                 /\ cnt[p] # 0
                                 /\ ~ (zone /\ p[3] # 0)},
                 cnt, rf)

\* 2^e
RECURSIVE Pow2(_)
Pow2(e) == IF e = 0 THEN 1 ELSE 2 * Pow2(e - 1)

\* The e with 2^e <= m/Micro < 2^(e+1), for m >= Micro
RECURSIVE Binade(_, _)
Binade(m, e) == IF m < 2 * Pow2(e) * Micro THEN e ELSE Binade(m, e + 1)

\* 5^6: Micro is 2^6 * 5^6
FiveSix == Micro \div 64

\* "%f" into a float: the nearest number with 24 significant bits to m
\* millionths, held as m + a/p millionths.  For 1 <= m/Micro < 128 the
\* float's last bit is worth 2^(e-23) = Micro/(FiveSix * p) millionths with
\* p = 2^(17-e); smaller values have a last bit under a tenth of a millionth
\* and are kept as they are.
ToFloat(m) ==
    IF m < Micro THEN [m |-> m, a |-> 0, p |-> 1]
    ELSE LET p == Pow2(17 - Binade(m, 0))
             r == m % FiveSix
             rr == (r * p + FiveSix \div 2) \div FiveSix
         IN  [m |-> m, a |-> rr * FiveSix - r * p, p |-> p]

\* sscanf(line, "%i %i %i %f", &h, &k, &l, &intensity)
Scan(line) ==
    IF line.kind = "refl"
    THEN [r |-> 4, hkl |-> <<line.h, line.k, line.l>>,
          intensity |-> ToFloat(line.i)]
    ELSE [r |-> 0]

\* The loop of read_reflections over the lines 1..k: the table and the counts.
RECURSIVE ReadLines(_, _)
ReadLines(lines, k) ==
    IF k = 0
    THEN [ref |-> [p \in Points |-> ToFloat(0)], counts |-> [p \in Points |-> 0]]
    ELSE LET before == ReadLines(lines, k - 1)
             sc == Scan(lines[k])
         IN  IF sc.r # 4 THEN before
             ELSE [ref |-> [before.ref EXCEPT ![sc.hkl] = sc.intensity],
                   counts |-> [before.counts EXCEPT ![sc.hkl] = 1]]

\* read_reflections(filename, counts): after the last line fgets fails and
\* the line still in the buffer is scanned once more.
read_reflections(lines) ==
    ReadLines(Append(lines, lines[Len(lines)]), Len(lines) + 1)

FileInit ==
    /\ DriverIdle /\ FomIdle /\ LoadIdle /\ PoolIdle /\ FlagsIdle
    /\ ToolsIdle
    /\ rpc = "start"
    /\ zone_axis \in BOOLEAN
    /\ \E t \in [Points -> Stored] :
          /\ counts = [p \in Points |-> t[p].n]
          /\ ref_tbl = [p \in Points |-> t[p].s]
    /\ hklfile = <<>>
    /\ counts_in = <<>> /\ ref_in = <<>>

WriteFile ==
    /\ rpc = "start"
    /\ hklfile' = write_reflections(counts, ref_tbl, zone_axis)
    /\ rpc' = "written"
    /\ UNCHANGED <<zone_axis, counts, ref_tbl, counts_in, ref_in>>
    /\ UNCHANGED NotFile

ReadFile ==
    /\ rpc = "written"
    /\ LET got == read_reflections(hklfile)
       IN  /\ ref_in' = got.ref
           /\ counts_in' = got.counts
    /\ rpc' = "read"
    /\ UNCHANGED <<zone_axis, counts, ref_tbl, hklfile>>
    /\ UNCHANGED NotFile

FileNext ==
    \/ WriteFile
    \/ ReadFile

SpecFile == FileInit /\ [][FileNext]_vars

\* ============================================================ stream flags

\* The words of a --record argument: the four flags parse_stream_flags
\* knows, and one more that the help text lists.
FlagWords == {"pixels", "integrated", "peaks", "peaksifindexed",
              "peaksifnotindexed"}

\* assplode(a, ",", &flags, ASSPLODE_NONE)
RecordArgs == UNION {[1..n -> FlagWords] : n \in 0..MaxFlags}

\* STREAM_PIXELS, STREAM_INTEGRATED, STREAM_PEAKS, STREAM_PEAKS_IF_INDEXED
StreamBit(word) ==
    CASE word = "pixels" -> "STREAM_PIXELS"
      [] word = "integrated" -> "STREAM_INTEGRATED"
      [] word = "peaks" -> "STREAM_PEAKS"
      [] word = "peaksifindexed" -> "STREAM_PEAKS_IF_INDEXED"
      [] OTHER -> "none"

\* The flag a word excludes.
Excludes(word) ==
    CASE word = "pixels" -> "STREAM_INTEGRATED"
      [] word = "integrated" -> "STREAM_PIXELS"
      [] word = "peaks" -> "STREAM_PEAKS_IF_INDEXED"
      [] word = "peaksifindexed" -> "STREAM_PEAKS"
      [] OTHER -> "none"

\* The loop of parse_stream_flags from word k on, with ret as it stands:
\* the return value, -1, 0 for a word that is not recognised, or ret (the
\* set of its bits, 0 when empty).
RECURSIVE ParseFrom(_, _, _)
ParseFrom(words, k, ret) ==
    IF k > Len(words) THEN [value |-> IF ret = {} THEN "0" ELSE "bits",
                            bits |-> ret]
    ELSE IF StreamBit(words[k]) = "none" THEN [value |-> "0", bits |-> {}]
    ELSE IF Excludes(words[k]) \in ret THEN [value |-> "-1", bits |-> {}]
    ELSE ParseFrom(words, k + 1, ret \cup {StreamBit(words[k])})

parse_stream_flags(words) == ParseFrom(words, 1, {})

FlagsInit ==
    /\ DriverIdle /\ FomIdle /\ LoadIdle /\ PoolIdle /\ FileIdle /\ ToolsIdle
    /\ spc = "options"
    /\ record_arg \in RecordArgs
    /\ stream_flags = [value |-> "bits", bits |-> {"STREAM_INTEGRATED"}]
    /\ exit_status = "running"
    /\ n_processed = 0

\* indexamajig's main, case 5 of the option loop.
RecordOption ==
    /\ spc = "options"
    /\ stream_flags' = parse_stream_flags(record_arg)
    /\ IF stream_flags'.value = "-1"
       THEN spc' = "exit" /\ exit_status' = "1"
       ELSE spc' = "run" /\ exit_status' = exit_status
    /\ UNCHANGED <<record_arg, n_processed>>
    /\ UNCHANGED NotFlags

\* The rest of main: an image is processed.
ProcessImage ==
    /\ spc = "run"
    /\ n_processed < MaxImages
    /\ n_processed' = n_processed + 1
    /\ UNCHANGED <<spc, record_arg, stream_flags, exit_status>>
    /\ UNCHANGED NotFlags

FlagsNext ==
    \/ RecordOption
    \/ ProcessImage

SpecFlags == FlagsInit /\ [][FlagsNext]_vars

\* ============================================= indexamajig's task queue

\* What becomes of a file named in the list: process_image returns early
\* (the file cannot be opened, its path cannot be selected, it holds no
\* wavelength), or index_pattern finds a cell, or it finds none.  A line
\* of 1023 to 2044 characters ("long") does not fit fgets' buffer.
LineKinds == {"unreadable", "indexed", "unindexed", "long"}

\* The file list behind -i.
FileLists == UNION {[1..n -> LineKinds] : n \in 0..MaxLines}

\* -j values explored.
IndexThreads == {1, 2}

\* What successive fgets(line, 1023, fh) calls return of the list: for each
\* the line it is taken from.  A long line comes in two pieces.
RECURSIVE Pieces(_)
Pieces(lines) ==
    IF lines = <<>> THEN <<>>
    ELSE LET n == Len(lines)
             front == Pieces(SubSeq(lines, 1, n - 1))
         IN  IF lines[n] = "long" THEN front \o <<n, n>> ELSE front \o <<n>>

\* fgets(line, 1023, fh): the line the piece read belongs to (0 for NULL)
\* and the new position.
fgets(pos, lines) ==
    IF pos < Len(Pieces(lines))
    THEN [rval |-> Pieces(lines)[pos + 1], fh |-> pos + 1]
    ELSE [rval |-> 0, fh |-> pos]

\* Mutant: the line main has read ahead is kept for the next call as well.
TakeAhead_Kept(q) == q

\* qargs->use_this_one_instead = NULL;
TakeAhead(q) == [q EXCEPT !.use_this_one_instead = 0]

\* Mutant: the lock is left to the first worker that took it.
Unlocked_Never(m) == m

\* pthread_mutex_unlock(pargs->static_args.output_mutex);
Unlocked(m) == 0

IndexInit ==
    /\ ProgramsIdle
    /\ CrystalsIdle /\ SkipIdle /\ AsapoIdle /\ GeometryIdle
    /\ ipc = "main"
    /\ filelist \in FileLists
    /\ qargs = [fh |-> 0, use_this_one_instead |-> 0,
                n_indexable |-> 0, n_processed |-> 0]
    /\ iworkers = <<>>
    /\ output_mutex = 0
    /\ ofh = <<>>
    /\ tasks = <<>>

\* main, lines 733-797: the first file name is read to prepare the indexer
\* and kept for get_image; then the threads are started.
IndexPrepare ==
    /\ ipc = "main"
    /\ LET r == fgets(qargs.fh, filelist)
       IN  IF r.rval = 0
           THEN /\ ipc' = "exit"
                /\ UNCHANGED <<qargs, iworkers>>
           ELSE \E prepared \in BOOLEAN, n \in IndexThreads :
                   /\ qargs' = [fh |-> r.fh, use_this_one_instead |-> r.rval,
                                n_indexable |-> 0, n_processed |-> 0]
                   /\ IF prepared
                      THEN /\ ipc' = "running"
                           /\ iworkers' = [w \in 1..n |-> [st |-> "idle"]]
                      ELSE /\ ipc' = "exit"
                           /\ UNCHANGED iworkers
    /\ UNCHANGED <<filelist, output_mutex, ofh, tasks>>
    /\ UNCHANGED NotIndex

\* A thread asks for a task: get_image (lines 349-393), under the pool's
\* lock.  NULL ends the thread.
IndexGet(w) ==
    /\ ipc = "running"
    /\ iworkers[w].st = "idle"
    /\ IF qargs.use_this_one_instead # 0
       THEN /\ qargs' = TakeAhead(qargs)
            /\ tasks' = Append(tasks, qargs.use_this_one_instead)
            /\ iworkers' = [iworkers EXCEPT ![w] =
                  [st |-> "task", line |-> qargs.use_this_one_instead,
                   indexable |-> 0]]
       ELSE LET r == fgets(qargs.fh, filelist)
            IN  IF r.rval = 0
                THEN /\ iworkers' = [iworkers EXCEPT ![w] = [st |-> "exited"]]
                     /\ UNCHANGED <<qargs, tasks>>
                ELSE /\ qargs' = [qargs EXCEPT !.fh = r.fh]
                     /\ tasks' = Append(tasks, r.rval)
                     /\ iworkers' = [iworkers EXCEPT ![w] =
                           [st |-> "task", line |-> r.rval, indexable |-> 0]]
    /\ UNCHANGED <<ipc, filelist, output_mutex, ofh>>
    /\ UNCHANGED NotIndex

\* process_image, lines 198-329: everything before the output is written.
IndexProcess(w) ==
    /\ ipc = "running"
    /\ iworkers[w].st = "task"
    /\ LET kind == filelist[iworkers[w].line]
       IN  iworkers' = [iworkers EXCEPT ![w] =
              [st |-> IF kind \in {"unreadable", "long"} THEN "finalise"
                      ELSE "measured",
               line |-> iworkers[w].line,
               indexable |-> IF kind = "indexed" THEN 1 ELSE 0]]
    /\ UNCHANGED <<ipc, filelist, qargs, output_mutex, ofh, tasks>>
    /\ UNCHANGED NotIndex

\* pthread_mutex_lock(pargs->static_args.output_mutex);
IndexLock(w) ==
    /\ ipc = "running"
    /\ iworkers[w].st = "measured"
    /\ output_mutex = 0
    /\ output_mutex' = w
    /\ iworkers' = [iworkers EXCEPT ![w].st = "locked"]
    /\ UNCHANGED <<ipc, filelist, qargs, ofh, tasks>>
    /\ UNCHANGED NotIndex

\* write_chunk: the chunk start marker and what follows it, ...
IndexWriteStart(w) ==
    /\ ipc = "running"
    /\ iworkers[w].st = "locked"
    /\ ofh' = Append(ofh, <<"start", iworkers[w].line>>)
    /\ iworkers' = [iworkers EXCEPT ![w].st = "writing"]
    /\ UNCHANGED <<ipc, filelist, qargs, output_mutex, tasks>>
    /\ UNCHANGED NotIndex

\* ... and the rest of the chunk up to its end marker.
IndexWriteEnd(w) ==
    /\ ipc = "running"
    /\ iworkers[w].st = "writing"
    /\ ofh' = Append(ofh, <<"end", iworkers[w].line>>)
    /\ iworkers' = [iworkers EXCEPT ![w].st = "written"]
    /\ UNCHANGED <<ipc, filelist, qargs, output_mutex, tasks>>
    /\ UNCHANGED NotIndex

\* pthread_mutex_unlock, and the rest of process_image.
IndexUnlock(w) ==
    /\ ipc = "running"
    /\ iworkers[w].st = "written"
    /\ output_mutex' = Unlocked(output_mutex)
    /\ iworkers' = [iworkers EXCEPT ![w].st = "finalise"]
    /\ UNCHANGED <<ipc, filelist, qargs, ofh, tasks>>
    /\ UNCHANGED NotIndex

\* finalise_image (lines 396-422), under the pool's lock.
IndexFinalise(w) ==
    /\ ipc = "running"
    /\ iworkers[w].st = "finalise"
    /\ qargs' = [qargs EXCEPT
                    !.n_indexable = @ + iworkers[w].indexable,
                    !.n_processed = @ + 1]
    /\ iworkers' = [iworkers EXCEPT ![w] = [st |-> "idle"]]
    /\ UNCHANGED <<ipc, filelist, output_mutex, ofh, tasks>>
    /\ UNCHANGED NotIndex

\* run_threads returns when every thread has left its loop.
IndexReturn ==
    /\ ipc = "running"
    /\ \A w \in DOMAIN iworkers : iworkers[w].st = "exited"
    /\ ipc' = "done"
    /\ UNCHANGED <<filelist, qargs, iworkers, output_mutex, ofh, tasks>>
    /\ UNCHANGED NotIndex

IndexNext ==
    \/ IndexPrepare
    \/ \E w \in DOMAIN iworkers : IndexGet(w)
    \/ \E w \in DOMAIN iworkers : IndexProcess(w)
    \/ \E w \in DOMAIN iworkers : IndexLock(w)
    \/ \E w \in DOMAIN iworkers : IndexWriteStart(w)
    \/ \E w \in DOMAIN iworkers : IndexWriteEnd(w)
    \/ \E w \in DOMAIN iworkers : IndexUnlock(w)
    \/ \E w \in DOMAIN iworkers : IndexFinalise(w)
    \/ IndexReturn

SpecIndex == IndexInit /\ [][IndexNext]_vars

\* The threads of run_threads go on taking turns: none is held back for
\* ever while it has a step to take.
FairIndex ==
    /\ SpecIndex
    /\ \A w \in IndexThreads :
          /\ WF_vars(w \in DOMAIN iworkers /\ IndexGet(w))
          /\ WF_vars(w \in DOMAIN iworkers /\ IndexProcess(w))
          /\ SF_vars(w \in DOMAIN iworkers /\ IndexLock(w))
          /\ WF_vars(w \in DOMAIN iworkers /\ IndexWriteStart(w))
          /\ WF_vars(w \in DOMAIN iworkers /\ IndexWriteEnd(w))
          /\ WF_vars(w \in DOMAIN iworkers /\ IndexUnlock(w))
          /\ WF_vars(w \in DOMAIN iworkers /\ IndexFinalise(w))
    /\ WF_vars(IndexReturn)

\* ============================================ remove_flagged_crystals

\* User flags explored: 0, and two of the values post-refinement sets.
UserFlags == {0, 1, 2}

\* The crystals of an image: each with its flag, and a name to tell them
\* apart.
Images ==
    UNION {[1..n -> UserFlags] : n \in 0..MaxPerImage}

\* for ( j=i; j<image->n_crystals-1; j++ )
\*         image->crystals[j] = image->crystals[j+1];
\* (crystals[] is counted from 0 in the source and from 1 here)
ShiftDown(crs, k, n) ==
    [x \in DOMAIN crs |-> IF x - 1 >= k /\ x - 1 < n - 1 THEN crs[x + 1]
                          ELSE crs[x]]

\* Mutant: the loop steps on after a removal.
NextIndex_StepsOn(k, removed) == k + 1

\* i--; in the branch, then the loop's i++
NextIndex(k, removed) == IF removed THEN (k - 1) + 1 ELSE k + 1

CrystalsInit ==
    /\ ProgramsIdle
    /\ IndexIdle /\ SkipIdle /\ AsapoIdle /\ GeometryIdle
    /\ cpc = "loop"
    /\ \E flags \in Images :
          image = [crystals |-> [x \in DOMAIN flags |->
                                    [name |-> x, user_flag |-> flags[x]]],
                   n_crystals |-> Len(flags),
                   freed |-> {}]
    /\ image_in = image
    /\ ci = 0
    /\ n_bad = 0

\* One pass of the for loop of remove_flagged_crystals.
RemoveStep ==
    /\ cpc = "loop"
    /\ ci < image.n_crystals
    /\ LET cr == image.crystals[ci + 1]
       IN  IF cr.user_flag # 0
           THEN /\ image' = [crystals |-> ShiftDown(image.crystals, ci,
                                                    image.n_crystals),
                             n_crystals |-> image.n_crystals - 1,
                             freed |-> image.freed \cup {cr.name}]
                /\ n_bad' = n_bad + 1
                /\ ci' = NextIndex(ci, TRUE)
           ELSE /\ ci' = NextIndex(ci, FALSE)
                /\ UNCHANGED <<image, n_bad>>
    /\ UNCHANGED <<cpc, image_in>>
    /\ UNCHANGED NotCrystals

\* return n_bad;
RemoveReturn ==
    /\ cpc = "loop"
    /\ ci >= image.n_crystals
    /\ cpc' = "returned"
    /\ UNCHANGED <<image, image_in, ci, n_bad>>
    /\ UNCHANGED NotCrystals

CrystalsNext ==
    \/ RemoveStep
    \/ RemoveReturn

SpecCrystals == CrystalsInit /\ [][CrystalsNext]_vars

\* ===================================================== skip_some_files

\* A stream file: lines that are the chunk end marker or something else, and
\* whether the last line is closed by a newline.
StreamFiles ==
    [lines : UNION {[1..n -> {"end", "other"}] : n \in 0..MaxFileLines},
     final_nl : BOOLEAN]

\* fgets(line, 1023, fh) at position pos: the characters of the next line,
\* its newline included when it has one.
ReadLine(f, pos) ==
    [text |-> f.lines[pos + 1],
     nl |-> (pos + 1 < Len(f.lines)) \/ f.final_nl]

\* chomp(line)
chomp(line) == [line EXCEPT !.nl = FALSE]

\* strcmp(line, CHUNK_END_MARKER) == 0
IsEndMarker(line) == line.text = "end" /\ ~ line.nl

\* count_patterns, from the start of the file.
count_patterns(f) ==
    Cardinality({k \in DOMAIN f.lines : IsEndMarker(chomp(ReadLine(f, k - 1)))})

SkipInit ==
    /\ ProgramsIdle
    /\ IndexIdle /\ CrystalsIdle /\ AsapoIdle /\ GeometryIdle
    /\ kpc = "loop"
    /\ sfile \in StreamFiles
    /\ skip_n \in 0..2
    /\ sfh = 0
    /\ n_patterns = 0
    /\ skip_ret = "none"

\* One pass of the do loop of skip_some_files.
SkipStep ==
    /\ kpc = "loop"
    /\ IF n_patterns = skip_n
       THEN /\ kpc' = "returned" /\ skip_ret' = "0"
            /\ UNCHANGED <<sfh, n_patterns>>
       ELSE IF sfh >= Len(sfile.lines)
       THEN /\ kpc' = "returned" /\ skip_ret' = "1"
            /\ UNCHANGED <<sfh, n_patterns>>
       ELSE /\ sfh' = sfh + 1
            /\ n_patterns' = IF IsEndMarker(ReadLine(sfile, sfh))
                             THEN n_patterns + 1 ELSE n_patterns
            /\ UNCHANGED <<kpc, skip_ret>>
    /\ UNCHANGED <<sfile, skip_n>>
    /\ UNCHANGED NotSkip

SkipNext == SkipStep

SpecSkip == SkipInit /\ [][SkipNext]_vars

\* ============================================================ im_asapo

\* The streams of the data source in the order of the stream list.  A stream
\* is named by its place in the list; left counts its messages not yet
\* consumed, and next is the name its producer gave for the stream that
\* follows it when finishing it (0 while it is not finished).
NoStream == 0

\* asapo_stream_info_get_next_stream
next_stream(list, k) == list[k].next

\* select_last_stream: the name of the last item of the stream list.
select_last_stream(list) == Len(list)

\* The items the loop of select_next_stream looks at: i = n-1 down to i > 0,
\* counted from 0, which are the places 2..n of the list.
Examined(list) == 2..Len(list)

\* select_next_stream: a->stream after the call.
select_next_stream(list, cur) ==
    IF cur \in Examined(list) THEN next_stream(list, cur) ELSE cur

\* asapo_consumer_get_next on stream s: a message, end of stream for a
\* finished stream with nothing left, otherwise another error (no such
\* stream yet, or no data within the timeout).
get_next(list, s) ==
    IF s \notin DOMAIN list THEN "error"
    ELSE IF list[s].left > 0 THEN "data"
    ELSE IF list[s].next # NoStream THEN "EndOfStream"
    ELSE "error"

AsapoInit ==
    /\ ProgramsIdle
    /\ IndexIdle /\ CrystalsIdle /\ SkipIdle /\ GeometryIdle
    /\ asapo = <<[left |-> 0, next |-> NoStream]>>
    /\ a_stream = NoStream
    /\ fetched = <<>>

\* The producer sends a message to a stream that is not finished; the first
\* message of the stream a finished last stream has named opens that stream.
Produce(k) ==
    /\ \/ /\ k \in DOMAIN asapo
          /\ asapo[k].next = NoStream
          /\ asapo[k].left < MaxMessages
          /\ asapo' = [asapo EXCEPT ![k].left = @ + 1]
       \/ /\ k = Len(asapo) + 1
          /\ k <= MaxStreams
          /\ asapo[Len(asapo)].next = k
          /\ asapo' = Append(asapo, [left |-> 1, next |-> NoStream])
    /\ UNCHANGED <<a_stream, fetched>>
    /\ UNCHANGED NotAsapo

\* The producer finishes the last stream and names the one that follows.
Finish ==
    /\ asapo[Len(asapo)].next = NoStream
    /\ Len(asapo) < MaxStreams
    /\ asapo' = [asapo EXCEPT ![Len(asapo)].next = Len(asapo) + 1]
    /\ UNCHANGED <<a_stream, fetched>>
    /\ UNCHANGED NotAsapo

\* One call of im_asapo_fetch.
Fetch ==
    LET cur == IF a_stream = NoStream
               THEN select_last_stream(asapo) ELSE a_stream
        got == get_next(asapo, cur)
    IN  /\ asapo' = IF got = "data"
                    THEN [asapo EXCEPT ![cur].left = @ - 1] ELSE asapo
        /\ a_stream' = IF got = "EndOfStream"
                       THEN select_next_stream(asapo, cur) ELSE cur
        /\ fetched' = <<[from |-> cur, got |-> got,
                         returned |-> IF got = "data" THEN "data" ELSE "NULL"]>>
        /\ UNCHANGED NotAsapo

AsapoNext == (\E k \in 1..MaxStreams : Produce(k)) \/ Finish \/ Fetch

SpecAsapo == AsapoInit /\ [][AsapoNext]_vars

\* ======================================== data_template_new_from_string

Unassigned == 99        \* is_fsss of a bad region with no coordinate yet

\* The lines of a geometry description that say something: a top-level
\* option, the fields of a panel (accepted: they describe the panel
\* completely; otherwise parse_field_for_panel refuses one of them), or a
\* field of a bad region: an x/y limit, an fs/ss limit or the panel the
\* region belongs to.
GeometryLines ==
    {[kind |-> "toplevel"]}
    \cup [kind : {"panel"}, name : {"p0", "p1"}, accepted : BOOLEAN]
    \cup [kind : {"bad"}, name : {"bad0", "bad1"}, key : {"xy", "fsss", "panel"}]

Geometries == UNION {[1..n -> GeometryLines] : n \in 1..MaxGeometryLines}

\* find_bad_region_by_name: the place of the region in dt->bad, 0 for NULL.
find_bad_region_by_name(t, name) ==
    IF \E k \in DOMAIN t.bad : t.bad[k].name = name
    THEN CHOOSE k \in DOMAIN t.bad : t.bad[k].name = name
    ELSE 0

\* new_bad_region
new_bad_region(t, name) ==
    [t EXCEPT !.bad = Append(@, [name |-> name, is_fsss |-> Unassigned])]

\* find_panel_by_name and new_panel: dt after the panel has been looked up
\* and, when it was not there, added.
WithPanel(t, name) ==
    IF \E k \in DOMAIN t.panels : t.panels[k] = name
    THEN t
    ELSE [t EXCEPT !.panels = Append(@, name)]

\* check_badr_fsss: the region afterwards, and the value returned.
check_badr_fsss(badr, is_fsss) ==
    IF badr.is_fsss = Unassigned
    THEN [badr |-> [badr EXCEPT !.is_fsss = is_fsss], ret |-> 0]
    ELSE IF is_fsss # badr.is_fsss
    THEN [badr |-> badr, ret |-> 1]
    ELSE [badr |-> badr, ret |-> 0]

\* parse_field_bad
parse_field_bad(badr, key) ==
    IF key = "xy" THEN check_badr_fsss(badr, 0)
    ELSE IF key = "fsss" THEN check_badr_fsss(badr, 1)
    ELSE [badr |-> badr, ret |-> 0]

\* dt->n_panels
n_panels_of(t) == Len(t.panels)

\* The test made for a description without panels.
NoPanels(t) == n_panels_of(t) = -1

GeometryInit ==
    /\ ProgramsIdle
    /\ IndexIdle /\ CrystalsIdle /\ SkipIdle /\ AsapoIdle
    /\ gpc = "parse"
    /\ geometry \in Geometries
    /\ gpos = 0
    /\ dt = [panels |-> <<>>, bad |-> <<>>]
    /\ reject = 0

\* One pass of the loop over the lines of the description.
ParseLine ==
    /\ gpc = "parse"
    /\ gpos < Len(geometry)
    /\ gpos' = gpos + 1
    /\ LET line == geometry[gpos + 1] IN
       IF line.kind = "toplevel"
       THEN UNCHANGED <<dt, reject>>
       ELSE IF line.kind = "panel"
       THEN /\ dt' = WithPanel(dt, line.name)
            /\ reject' = IF line.accepted THEN reject ELSE 1
       ELSE LET t == IF find_bad_region_by_name(dt, line.name) = 0
                     THEN new_bad_region(dt, line.name) ELSE dt
                k == find_bad_region_by_name(t, line.name)
                r == parse_field_bad(t.bad[k], line.key)
            IN  /\ dt' = [t EXCEPT !.bad[k] = r.badr]
                /\ reject' = IF r.ret # 0 THEN 1 ELSE reject
    /\ UNCHANGED <<gpc, geometry>>
    /\ UNCHANGED NotGeometry

\* The checks after the loop, and the return.
CheckTemplate ==
    /\ gpc = "parse"
    /\ gpos = Len(geometry)
    /\ IF NoPanels(dt)
       THEN gpc' = "NULL" /\ UNCHANGED reject
       ELSE LET rej == IF \E k \in DOMAIN dt.bad :
                              dt.bad[k].is_fsss = Unassigned
                       THEN 1 ELSE reject
            IN  /\ reject' = rej
                /\ gpc' = IF rej # 0 THEN "NULL" ELSE "dt"
    /\ UNCHANGED <<geometry, gpos, dt>>
    /\ UNCHANGED NotGeometry

GeometryNext == ParseLine \/ CheckTemplate

SpecGeometry == GeometryInit /\ [][GeometryNext]_vars

\* ===================================================== claims: merge driver



AllRefl == Crystals \X HKL

R(c, h) == crystals[c].refl[h]

\* C1 (as stated): once select_reflections_for_refinement has run, in any
\* cycle, a reflection's refinable flag is 1 exactly when it is scalable, has
\* I >= 3 sigma and is found in the comparison list with redundancy >= 2 (any
\* redundancy with an external reference); otherwise the flag is 0.
C1_RefinableExactly ==
    pc = "refine" =>
        \A x \in AllRefl :
            LET r == R(x[1], x[2])
                wanted == /\ r.scalable = 1
                          /\ r.intensity >= 3 * r.esd
                          /\ x[2] \in DOMAIN Comp
                          /\ (Comp[x[2]].redundancy >= 2 \/ have_reference)
            IN  r.refinable = (IF wanted THEN 1 ELSE 0)

\* What does hold of the flags: a flag of 1 is always on a strong, scalable
\* reflection found in the comparison list, and in the first cycle the flags
\* are exactly the claimed ones.
C1_FirstCycleExact ==
    (pc = "refine" /\ i = 0) =>
        \A x \in AllRefl :
            LET r == R(x[1], x[2])
                wanted == /\ r.scalable = 1
                          /\ r.intensity >= 3 * r.esd
                          /\ x[2] \in DOMAIN Comp
                          /\ (Comp[x[2]].redundancy >= 2 \/ have_reference)
            IN  r.refinable = (IF wanted THEN 1 ELSE 0)

\* A reflection refinable from an earlier cycle whose merged estimate has
\* since dropped to a single part.
C1_StaleFlag ==
    /\ pc = "refine"
    /\ \E x \in AllRefl :
          /\ R(x[1], x[2]).refinable = 1
          /\ ~have_reference
          /\ x[2] \in DOMAIN full
          /\ full[x[2]].redundancy < 2

\* C2: select_scalable_reflections sets scalable to 1 exactly for the
\* reflections with non-zero redundancy, partiality >= 0.05 and (with a
\* reference) an entry in the reference, to 0 for all others, and returns the
\* number of flags it set to 1 (main adds the returns up in nobs).
C2_ScalableExactly ==
    pc \in {"scale0", "rescale"} =>
        /\ \A x \in AllRefl :
              LET r == R(x[1], x[2])
                  wanted == /\ r.redundancy # 0
                            /\ r.partiality >= 5
                            /\ (have_reference => x[2] \in DOMAIN reference)
              IN  r.scalable = (IF wanted THEN 1 ELSE 0)
        /\ nobs = Cardinality({x \in AllRefl : R(x[1], x[2]).scalable = 1})

\* C2 witness: after a selection against a reference, one reflection was
\* accepted at the partiality threshold, one was refused and counted out for
\* missing from the reference alone, and one for its redundancy or partiality.
C2_Witness ==
    /\ pc = "rescale"
    /\ have_reference
    /\ nobs > 0
    /\ \E x \in AllRefl : R(x[1], x[2]).scalable = 1 /\ R(x[1], x[2]).partiality = 5
    /\ \E x \in AllRefl :
          /\ R(x[1], x[2]).scalable = 0
          /\ x[2] \in DOMAIN reference
    /\ \E x \in AllRefl :
          /\ R(x[1], x[2]).scalable = 0
          /\ R(x[1], x[2]).redundancy # 0
          /\ R(x[1], x[2]).partiality >= 5
          /\ x[2] \notin DOMAIN reference

RefineEvents == {k \in 1..Len(log) : log[k][1] = "refine"}

\* C3: with the unity model refine_all runs no task and changes nothing:
\* when it returns, every crystal (OSF, geometry, user flag, reflections) and
\* n_filtered are as they were when it was entered.
C3_UnityNoOp ==
    (pc = "reselect" /\ pmodel = PMODEL_UNITY) =>
        /\ crystals = at_call[1]
        /\ n_filtered = at_call[2]
        /\ RefineEvents = {}

\* C3 witness: refine_all has returned under the unity model for crystals
\* that had refinable reflections.
C3_Witness ==
    /\ pc = "reselect"
    /\ pmodel = PMODEL_UNITY
    /\ \A c \in Crystals : NumRefinable(crystals[c]) >= 1

ExpectedCycle(k) ==
    <<<<"select", k>>>>
    \o (IF pmodel = PMODEL_UNITY THEN <<>> ELSE [c \in 1..NCrystals |-> <<"refine", c>>])
    \o <<<<"scale", k>>, <<"report", k>>>>

RECURSIVE ExpectedCycles(_)
ExpectedCycles(k) ==
    IF k = 0 THEN <<<<"scale", 0>>, <<"report", 0>>>>
    ELSE ExpectedCycles(k - 1) \o ExpectedCycle(k)

ExpectedLog == ExpectedCycles(n_iter) \o <<<<"write", n_iter>>>>

IsPrefix(s, t) == Len(s) <= Len(t) /\ \A k \in 1..Len(s) : s[k] = t[k]

\* C4: for N >= 0 iterations the driver makes N+1 scaling passes and N+1
\* reports numbered 0..N in order; in each cycle selection precedes every
\* refinement task, all tasks precede the re-scaling, and the list written is
\* the one of the last scaling pass.
C4_DriverOrder ==
    /\ IsPrefix(log, ExpectedLog)
    /\ pc = "done" =>
          /\ log = ExpectedLog
          /\ n_scaled = n_iter + 1
          /\ reports = [k \in 1..(n_iter + 1) |-> k - 1]
          /\ written = <<full>>
          /\ full = scale_intensities(crystals, min_measurements)

\* C4 witness: a run of MaxIter cycles with refinement tasks has finished.
C4_Witness ==
    /\ pc = "done"
    /\ n_iter = MaxIter
    /\ pmodel = PMODEL_SPHERE
    /\ Cardinality(RefineEvents) = MaxIter * NCrystals


\* =========================================== claims: reflection selection

\* What C8 asks of an index for it to be accepted.
Wanted8(h) ==
    /\ h \in DOMAIN given.list1
    /\ h \in DOMAIN given.list2
    /\ LET r1 == given.list1[h]
           r2 == given.list2[h]
       IN  /\ r1.intensity >= sel.sigma_cutoff * r1.esd
           /\ r2.intensity >= sel.sigma_cutoff * r2.esd
           /\ sel.ignore_negs => (r1.intensity >= 0 /\ r2.intensity >= 0)
           /\ r1.redundancy >= sel.mul_cutoff
           /\ r2.redundancy >= sel.mul_cutoff
           /\ sel.rmin_fix > 0 => Res3(h) >= sel.rmin_fix
           /\ sel.rmax_fix > 0 => Res3(h) <= sel.rmax_fix

\* The accepted copy of a reflection: its data, a negative intensity zeroed
\* when zero_negs is set.
Copy8(r) ==
    [r EXCEPT !.intensity = IF sel.zero_negs /\ r.intensity < 0 THEN 0 ELSE @]

\* C7 (as stated): after fom_select_reflections returns with anom set, every
\* reflection of the caller's list1_acc and list2_acc is acentric and has its
\* Bijvoet partner in both accepted lists, and the return value is the number
\* of reflections in list1_acc.
C7_AnomAccepted ==
    (fpc = "selected" /\ sel.anom) =>
        /\ \A h \in DOMAIN list1_acc \cup DOMAIN list2_acc :
              /\ ~ is_centric(h, sym)
              /\ find_equiv_in_list(list1_acc, Friedel(h), sym)
              /\ find_equiv_in_list(list2_acc, Friedel(h), sym)
        /\ ncom = Cardinality(DOMAIN list1_acc)

\* What the code does give with anom set: the caller's lists are those of the
\* selection without anom, and the lists that satisfy C7 are the lost ones.
C7_CallerKeepsFirstPass ==
    (fpc = "selected" /\ sel.anom) =>
        /\ DOMAIN list1_acc = {h \in FHKL : Wanted8(h)}
        /\ DOMAIN list2_acc = DOMAIN list1_acc
        /\ Len(leaked) = 2
        /\ ncom = Cardinality(DOMAIN leaked[1])
        /\ DOMAIN leaked[2] = DOMAIN leaked[1]
        /\ \A h \in DOMAIN leaked[1] :
              /\ ~ is_centric(h, sym)
              /\ find_equiv_in_list(list1_acc, Friedel(h), sym)
              /\ find_equiv_in_list(list2_acc, Friedel(h), sym)

\* A return with anom set where the caller's list holds a centric reflection
\* and the return value is not the size of the list.
C7_CentricKept ==
    /\ fpc = "selected" /\ sel.anom
    /\ \E h \in DOMAIN list1_acc : is_centric(h, sym)
    /\ ncom # Cardinality(DOMAIN list1_acc)

\* C8: with anom unset an index is in the accepted lists exactly when it is in
\* both input lists, both intensities are >= sigma_cutoff * sigma, neither is
\* negative under ignore_negs, both redundancies are >= mul_cutoff and the
\* resolution is within the positive limits; the two accepted lists hold the
\* same indices, the return value is their number, the input lists are as
\* given and the accepted copies carry the data (negatives zeroed under
\* zero_negs).
C8_NonAnomSelection ==
    (fpc = "selected" /\ ~ sel.anom) =>
        /\ DOMAIN list1_acc = {h \in FHKL : Wanted8(h)}
        /\ DOMAIN list2_acc = DOMAIN list1_acc
        /\ ncom = Cardinality(DOMAIN list1_acc)
        /\ list1 = given.list1
        /\ list2 = given.list2
        /\ \A h \in DOMAIN list1_acc :
              /\ list1_acc[h] = Copy8(given.list1[h])
              /\ list2_acc[h] = Copy8(given.list2[h])
        /\ leaked = <<>>

\* C8 witness: a selection without anom that accepted a pair exactly at the
\* sigma cutoff and another pair, rejected a pair present in both lists, and
\* passed over a reflection that only list1 holds.
C8_Witness ==
    /\ fpc = "selected" /\ ~ sel.anom
    /\ ncom >= 2
    /\ \E h \in DOMAIN list2_acc :
          list2[h].intensity = sel.sigma_cutoff * list2[h].esd
    /\ \E h \in DOMAIN list1 \cap DOMAIN list2 : h \notin DOMAIN list1_acc
    /\ \E h \in DOMAIN list1 : h \notin DOMAIN list2

\* A selection without anom under zero_negs whose accepted copy holds 0 for a
\* negative intensity that the input list still holds.
C8_ZeroedCopy ==
    /\ fpc = "selected" /\ ~ sel.anom /\ sel.zero_negs
    /\ \E h \in DOMAIN list1_acc :
          list1_acc[h].intensity = 0 /\ list1[h].intensity < 0

\* ============================================ claims: figures of merit

\* The accumulators fom_shell divides for shell j.
AccNum5(j) ==
    IF fctx.fom \in {"D1SIG", "D2SIG"} THEN D(fctx.n_within[j]) ELSE fctx.num[j]

AccDen5(j) ==
    IF fctx.fom \in {"D1SIG", "D2SIG"} THEN D(fctx.cts[j]) ELSE fctx.den[j]

RECURSIVE SumNum5(_)
SumNum5(S) ==
    IF S = {} THEN D(0)
    ELSE LET j == CHOOSE x \in S : TRUE IN DAdd(AccNum5(j), SumNum5(S \ {j}))

RECURSIVE SumDen5(_)
SumDen5(S) ==
    IF S = {} THEN D(0)
    ELSE LET j == CHOOSE x \in S : TRUE IN DAdd(AccDen5(j), SumDen5(S \ {j}))

AllShells == 0..(fctx.nshells - 1)

\* C5: for R1I, R1F, R2, Rsplit, Rano, D1sig and D2sig the value fom_overall
\* returns is the quotient of the sum over all shells of the per-shell
\* numerators by the sum over all shells of the per-shell denominators, taken
\* through the same final expression as fom_shell; with a single shell it is
\* that shell's value.
C5_OverallFromSums ==
    fpc = "overall" =>
        /\ fres.val.q = Quot(SumNum5(AllShells), SumDen5(AllShells))
        /\ fres.val.form = fom_shell(fctx, 0).form
        /\ fctx.nshells = 1 => fres.val = fom_shell(fctx, 0)

\* C5 witness: fom_overall has returned a finite value for a context with two
\* occupied shells of different finite values, and that value is not the mean
\* of the shells' values.
C5_Witness ==
    /\ fpc = "overall"
    /\ fres.val.q.t = "fin"
    /\ \E j, k \in AllShells :
          /\ fctx.cts[j] > 0 /\ fctx.cts[k] > 0
          /\ fom_shell(fctx, j).q.t = "fin" /\ fom_shell(fctx, k).q.t = "fin"
          /\ fom_shell(fctx, j).q # fom_shell(fctx, k).q
    /\ fres.val # fom_overall_MeanOfShells(fctx)

Unmatched == DOMAIN given.list1 \ DOMAIN given.list2

\* C6 (as stated): fom_calculate, scaling or not, accumulates only over the
\* reflections held by both lists: a reflection of list1 that list2 lacks is
\* passed over, is in no shell, and the call still returns (a context, or
\* NULL when the scaling fails) instead of ending the process.
C6_SkipsUnmatched ==
    (fpc = "calculated" /\ Unmatched # {}) =>
        /\ fctx.status \in {"ok", "null"}
        /\ fctx.status = "ok" => DOMAIN fctx.binof \cap Unmatched = {}

\* What the code does with a reflection of list1 that list2 lacks: the process
\* ends inside the call, with or without Wilson scaling.
C6_UnmatchedEndsProcess ==
    (fpc = "calculated" /\ Unmatched # {}) => fctx.status \in {"abort", "crash"}

\* A call without scaling on lists where list1 holds a reflection list2 lacks.
C6_UnmatchedNoScale ==
    /\ fpc = "calculated" /\ noscale
    /\ Unmatched # {}
    /\ DOMAIN given.list1 \cap DOMAIN given.list2 # {}
    /\ fctx.status = "abort"

\* The pairs wilson_scale can use: both intensities positive (and finite).
Usable9 ==
    {h \in DOMAIN given.list1 \cap DOMAIN given.list2 :
        given.list1[h].intensity > 0 /\ given.list2[h].intensity > 0}

\* C9 (as stated): when fewer than 2 pairs have both intensities positive and
\* finite, wilson_scale fails, fom_calculate returns NULL, and list2 is as it
\* was given.
C9_ScalingFailed ==
    (fpc = "calculated" /\ ~ noscale /\ Cardinality(Usable9) < 2) =>
        /\ fctx.status = "null"
        /\ list2 = given.list2

\* C9 holds on lists where list2 holds every reflection of list1.
C9_MatchedLists ==
    (fpc = "calculated" /\ ~ noscale /\ Cardinality(Usable9) < 2
        /\ Unmatched = {}) =>
        /\ fctx.status = "null"
        /\ list2 = given.list2

\* A failed scaling on matching, non-empty lists.
C9_MatchedFailure ==
    /\ fpc = "calculated" /\ ~ noscale
    /\ Unmatched = {}
    /\ Cardinality(DOMAIN given.list1) >= 2
    /\ Cardinality(Usable9) = 1
    /\ fctx.status = "null"

\* The shells that hold d, by the limits the shells were asked for: shell j
\* is ] rmin^3 + j v , rmin^3 + (j+1) v ] in cubes, with v the volume per
\* shell, and shell 0 takes rmin itself.
ShellsOf(h) ==
    LET n == shellp.nshells
        v == shellp.rmax - shellp.rmin
        d == n * Res3(h)
    IN  {j \in 0..(n - 1) :
            \/ n * shellp.rmin + j * v < d /\ d <= n * shellp.rmin + (j + 1) * v
            \/ j = 0 /\ d = n * shellp.rmin}

InRange(h) == shellp.rmin <= Res3(h) /\ Res3(h) <= shellp.rmax

\* C10: for the shells of fom_make_resolution_shells(rmin, rmax, n), get_bin
\* gives every reflection with rmin <= d <= rmax one shell index in 0..n-1,
\* the only shell that holds d, and a d on the boundary of shells j and j+1
\* goes to shell j; fom_calculate accumulates each reflection in that shell.
C10_BinOfRange ==
    shells.nshells > 0 =>
        /\ \A h \in FHKL :
              InRange(h) =>
                  /\ get_bin(shells, h) \in 0..(shells.nshells - 1)
                  /\ ShellsOf(h) = {get_bin(shells, h)}
                  /\ \A j \in 0..(shells.nshells - 2) :
                        shells.nshells * Res3(h) = shells.rmaxs[j]
                            => get_bin(shells, h) = j
        /\ \A j \in 0..(shells.nshells - 2) :
              shells.rmaxs[j] = shells.rmins[j + 1]
        /\ fctx.status = "ok" =>
              \A h \in DOMAIN fctx.binof :
                  /\ fctx.binof[h] = get_bin(shells, h)
                  /\ InRange(h) => ShellsOf(h) = {fctx.binof[h]}

\* C10 witness: fom_calculate has put a reflection whose d is the boundary of
\* shells 0 and 1 into shell 0.
C10_Witness ==
    /\ fpc = "calculated"
    /\ fctx.status = "ok"
    /\ shells.nshells >= 2
    /\ \E h \in DOMAIN fctx.binof :
          /\ shells.nshells * Res3(h) = shells.rmaxs[0]
          /\ shells.rmaxs[0] = shells.rmins[1]
          /\ fctx.binof[h] = 0
          /\ fctx.cts[0] >= 1

\* ------------------------------------------------ Rsplit of identical lists

IdenticalLists == given.list1 = given.list2

Zero == [t |-> "fin", num |-> 0, den |-> 1]

\* A double that is finite and not zero.
Proper(a) == a.t = "fin" /\ a.v # 0

RECURSIVE TotalDen11(_)
TotalDen11(S) ==
    IF S = {} THEN D(0)
    ELSE LET j == CHOOSE x \in S : TRUE IN DAdd(fctx.den[j], TotalDen11(S \ {j}))

\* C11 (as stated): when the two lists given to fom_calculate are identical
\* copies, Rsplit is 0 for every shell index 0..nshells-1 (fom_shell) and 0
\* overall (fom_overall).
C11_RsplitZero ==
    (fom = "RSPLIT" /\ IdenticalLists /\ fpc \in {"shell", "overall"}) =>
        fres.val.q = Zero

\* C11 (amended): when the two lists are identical copies and fom_calculate
\* returns a context, Rsplit is 0 for every shell whose summed intensity
\* (the shell's denominator) is a finite number other than 0, and 0 overall
\* when the sum over all shells is; for a shell that holds no reflection, or
\* whose sum is 0 or not a number, the value is not a number.
C11_RsplitZeroWherePopulated ==
    (fom = "RSPLIT" /\ IdenticalLists) =>
        /\ fpc = "shell" =>
              IF Proper(fctx.den[fres.bin])
              THEN fres.val.q = Zero
              ELSE fres.val.q.t = "nan"
        /\ fpc = "overall" =>
              IF Proper(TotalDen11(AllShells))
              THEN fres.val.q = Zero
              ELSE fres.val.q.t = "nan"
        /\ fpc \in {"shell", "overall"} => fres.val.form = "2q/sqrt(2)"

\* C11 witness: fom_shell has returned 0 for a shell that holds two
\* reflections of identical lists, after Wilson scaling.
C11_Witness ==
    /\ fom = "RSPLIT" /\ IdenticalLists /\ ~ noscale
    /\ fpc = "shell"
    /\ fctx.cts[fres.bin] >= 2
    /\ fres.val.q = Zero

\* A shell without reflections: fom_shell has returned not-a-number for
\* identical, non-empty lists.
C11_EmptyShell ==
    /\ fom = "RSPLIT" /\ IdenticalLists /\ noscale
    /\ DOMAIN given.list1 # {}
    /\ fpc = "shell"
    /\ fctx.cts[fres.bin] = 0
    /\ fres.val.q.t = "nan"

\* -------------------------------------------------------------- Rano/Rsplit

\* The context fom_calculate returns for the given lists and another kind of
\* figure of merit, in a build with assertions.
Alone12(f) ==
    fom_calculate(given.list1, given.list2, shells, f, noscale, sym, FALSE).ctx

ReadOut12(ctx) ==
    IF fpc = "shell" THEN fom_shell(ctx, fres.bin) ELSE fom_overall(ctx)

\* C12: the Rano/Rsplit figure of merit, per shell and overall, equals Rano
\* divided by Rsplit, each computed by fom_calculate on the same two lists
\* and shells (the factors 2 and 2/sqrt(2) of the two taken out of both
\* sides).
C12_RatioOfTheTwo ==
    (fom = "RANORSPLIT" /\ fpc \in {"shell", "overall"}
       /\ Alone12("RANO").status = "ok" /\ Alone12("RSPLIT").status = "ok") =>
        fres.val.q = QDiv(ReadOut12(Alone12("RANO")).q,
                          ReadOut12(Alone12("RSPLIT")).q)

\* The Rano part of Rano/Rsplit has the sums of Rano alone.
C12_RanoPartAgrees ==
    (fom = "RANORSPLIT" /\ fpc = "calculated" /\ fctx.status = "ok"
       /\ Alone12("RANO").status = "ok") =>
        /\ fctx.num = Alone12("RANO").num
        /\ fctx.den = Alone12("RANO").den

\* The Rsplit part of Rano/Rsplit has one term for each Bijvoet pair, Rsplit
\* alone one for each reflection.
C12_RsplitPartOverPairs ==
    (fom = "RANORSPLIT" /\ fpc = "calculated" /\ fctx.status = "ok"
       /\ Alone12("RSPLIT").status = "ok") =>
        /\ DOMAIN fctx.binof \subseteq DOMAIN Alone12("RSPLIT").binof
        /\ \A h \in DOMAIN fctx.binof :
              ~ is_centric(h, sym) => Friedel(h) \notin DOMAIN fctx.binof

\* ------------------------------------------------------ errors while loading

\* Runs in which nothing but the stream's chunks can go wrong.
SoundOptions ==
    /\ lpc # "idle"
    /\ sym_str \in KnownPointGroups
    /\ pmodel_str # "bogus"
    /\ reference_file # "unreadable"

Range(f) == {f[x] : x \in DOMAIN f}

GoodCrystals ==
    {<<c, j>> \in (1..Len(stream)) \X {1, 2} :
        stream[c].kind = "good" /\ j <= stream[c].n_crystals}

\* The chunks in front of the first one that is not well-formed.
Leading ==
    {c \in 1..Len(stream) : \A b \in 1..c : stream[b].kind = "good"}

\* C13: a chunk that cannot be parsed or that lacks beam parameters discards
\* only that chunk's crystals: the run does not terminate because of it, and
\* the crystals of every well-formed chunk, later ones included, are loaded
\* and handed to the initial scaling.
C13_OnlyBadChunkDropped ==
    SoundOptions =>
        /\ lpc # "exit"
        /\ lpc = "scaled" => Range(lscaled) = GoodCrystals

\* What the loading loop does: the first incomplete chunk ends the loading,
\* the first chunk without beam parameters ends the run with status 1; only
\* the crystals of the chunks in front of it are ever loaded.
C13_LoadingEndsAtFirstBadChunk ==
    SoundOptions =>
        /\ Range(loaded) \subseteq {x \in GoodCrystals : x[1] \in Leading}
        /\ lpc = "scaled" =>
              Range(lscaled) = {x \in GoodCrystals : x[1] \in Leading}
        /\ lpc = "exit" =>
              /\ status = "1"
              /\ n_read \in 1..Len(stream)
              /\ stream[n_read].kind = "nobeam"
              /\ n_read - 1 \in Leading \cup {0}

\* A well-formed chunk behind an incomplete one, at the initial scaling.
C13_LaterChunkLeftOut ==
    /\ SoundOptions /\ lpc = "scaled"
    /\ \E c \in 1..Len(stream) :
          /\ stream[c].kind = "good" /\ stream[c].n_crystals > 0
          /\ c \notin Leading
          /\ <<c, 1>> \notin Range(lscaled)

\* C14: with an unknown point-group name the merge driver terminates with a
\* non-zero exit status before it folds any reference or crystal list and
\* before any scaling pass.
C14_UnknownSymmetryStops ==
    (lpc \notin {"idle", "options"} /\ sym_str \notin KnownPointGroups) =>
        /\ folds = <<>>
        /\ lpc \notin {"select", "scaled"}
        /\ lpc = "exit" => status # "0"

\* The initial scaling reached without an operator list.
C14_ScaledWithoutSymmetry ==
    /\ lsym = "NULL" /\ lpc = "scaled"
    /\ reference_file = "NULL" /\ pmodel_str = "NULL"

\* ------------------------------------------------------ a failed scaling pass

\* C15: when a scaling pass fails (no scalable observation over all the
\* crystals) the merge driver stops with a non-zero exit status: it neither
\* goes on to a later refinement cycle nor writes that result.
C15_FailedScaleStops ==
    (n_scaled >= 1 /\ nobs = 0) => pc \notin {"select", "write", "done"}

\* The merged list of a pass without observations, written out at the end of
\* a run that went through every cycle.
C15_EmptyResultWritten ==
    /\ pc = "done" /\ nobs = 0 /\ n_iter >= 1 /\ i = n_iter
    /\ written = <<EmptyList>>

\* ------------------------------------------------------------ flagged crystals

\* The crystals with the observations of crystal c taken away.
Without16(crs, c) ==
    [crs EXCEPT ![c].refl =
        [h \in DOMAIN crs[c].refl |-> [crs[c].refl[h] EXCEPT !.scalable = 0]]]

\* The scaling pass that ends cycle i: a flagged crystal adds nothing to the
\* merged list.
ScalingStep16 ==
    (pc = "rescale" /\ pc' # "rescale") =>
        \A c \in Crystals :
            crystals[c].user_flag # 0 =>
                full' = scale_intensities(Without16(crystals, c),
                                          min_measurements)

\* The refinement of one crystal: the flag it leaves is this cycle's verdict,
\* whatever flag the crystal came with.
RefineStep16 ==
    (pc = "refining" /\ n_started' = n_started + 1) =>
        LET c == n_started + 1
            was == {h \in HKL : crystals[c].refl[h].scalable = 1}
            lost == {h \in was : crystals'[c].refl[h].redundancy = 0}
        IN  /\ crystals'[c].user_flag = 1 <=>
                  NumRefinable(crystals[c]) < MinRefinable
            /\ crystals'[c].user_flag = 3 =>
                  2 * Cardinality(lost) > Cardinality(was)
            /\ crystals'[c].user_flag = 0 =>
                  /\ NumRefinable(crystals[c]) >= MinRefinable
                  /\ 2 * Cardinality(lost) <= Cardinality(was)

Min17(a, b) == IF a < b THEN a ELSE b

InPool == pc \in {"refining", "reselect"} /\ at_call # <<>>

\* What C17 says of the queue during and after one call.
Queue17 ==
    /\ \A a, b \in DOMAIN handed : a # b => handed[a] # handed[b]
    /\ \A a \in DOMAIN handed : handed[a] \in 0..(NCrystals - 1)
    /\ Cardinality(DOMAIN workers) <= Min17(nthreads, NCrystals)
    /\ pc = "reselect" =>
          /\ {handed[a] : a \in DOMAIN handed} = 0..(NCrystals - 1)
          /\ n_started = NCrystals
          /\ n_done = NCrystals

\* C17 (as stated): in one refine_all call every crystal index is handed out
\* by get_image exactly once, no index >= n_crystals is read, at most
\* min(nthreads, n_crystals) workers run, and on return
\* n_started = n_done = n_crystals.
C17_EveryIndexOnce == InPool => Queue17

\* C17 (amended): the same, for a partiality model other than unity; with the
\* unity model refine_all returns before the queue is set up and get_image
\* hands out no index.
C17_EveryIndexOnceUnlessUnity ==
    InPool =>
        IF pmodel = PMODEL_UNITY
        THEN handed = <<>> /\ workers = <<>> /\ pc = "reselect"
        ELSE Queue17

\* C17 witness: the call has returned after two workers took a task each.
C17_Witness ==
    /\ InPool /\ pc = "reselect" /\ pmodel = PMODEL_SPHERE
    /\ nthreads >= 2
    /\ Len(handed) = NCrystals
    /\ n_started = NCrystals /\ n_done = NCrystals
    /\ Len(results) >= 2 /\ results[1][1] = 2

\* ---------------------------------------------------- what the workers write

RECURSIVE SumFiltered18(_, _)
SumFiltered18(r, k) ==
    IF k = 0 THEN 0 ELSE SumFiltered18(r, k - 1) + r[k][2]

\* The worker whose step this is, if it is a refine_image step.
Working18(w) ==
    /\ w \in DOMAIN workers
    /\ workers[w].st = "working"
    /\ workers'[w].st = "finishing"

Writes18 ==
    /\ full' = full /\ reference' = reference
    /\ crystals' # crystals =>
          \E w \in DOMAIN workers :
              /\ Working18(w)
              /\ \A c \in Crystals :
                    c # workers[w].crystal => crystals'[c] = crystals[c]
              /\ \A v \in DOMAIN workers : v # w => workers'[v] = workers[v]
    /\ n_filtered' # n_filtered =>
          \E w \in DOMAIN workers :
              /\ workers[w].st = "finishing"
              /\ workers'[w].st = "idle"

\* C18: during the parallel phase a worker's task writes only its own
\* crystal and its own task record, never the merged or the reference list;
\* srdata.n_filtered changes only in the completion callback, and after
\* refine_all it is the sum of the tasks' n_filtered, whatever the
\* interleaving.
C18_WorkersKeepToTheirOwn ==
    /\ [][pc = "refining" => Writes18]_vars
    /\ [](InPool =>
            /\ n_filtered = SumFiltered18(results, Len(results))
            /\ (pc = "reselect" /\ pmodel # PMODEL_UNITY) =>
                  {results[k][1] : k \in DOMAIN results} = Crystals)

\* C18 witness: two workers have finished out of order, one task with a
\* filtered reflection and one without.
C18_Witness ==
    /\ InPool /\ pc = "reselect"
    /\ Len(results) = NCrystals
    /\ results[1][1] = 2
    /\ n_filtered = 1

\* ----------------------------------------------- tables written and read back

\* The value read back for p is within one unit of the last written digit
\* (a millionth) of the merged intensity ref_tbl[p]/counts[p].
WithinText19(p) ==
    LET f == ref_in[p]
        b == f.m * counts[p] - ref_tbl[p]
        d == f.a * counts[p] + b * f.p
    IN  (IF d < 0 THEN 0 - d ELSE d) <= f.p * counts[p]

Measured19 == {p \in Points : counts[p] # 0}

\* C19: writing a table with write_reflections and reading the file back
\* with read_reflections gives, for every (h,k,l) within -INDMAX..INDMAX
\* that had a non-zero count, a count of at least 1 and the same merged
\* intensity up to the precision of the text; no measured reflection is lost.
C19_RoundTrip ==
    rpc = "read" =>
        \A p \in Measured19 : counts_in[p] >= 1 /\ WithinText19(p)

\* What does come back: the measured reflections whose indices are all below
\* INDMAX (and, for a zone axis pattern, have l = 0), with count 1 and the
\* text's value rounded to a float.
C19_BelowTheEdgeKept ==
    rpc = "read" =>
        \A p \in Points :
            IF /\ p \in Measured19
               /\ p[1] < INDMAX /\ p[2] < INDMAX /\ p[3] < INDMAX
               /\ ~ (zone_axis /\ p[3] # 0)
            THEN /\ counts_in[p] = 1
                 /\ ref_in[p] = ToFloat(FormatF(ref_tbl[p], counts[p]))
            ELSE counts_in[p] = 0 /\ ref_in[p] = ToFloat(0)

\* A measured reflection with an index equal to INDMAX, gone after the file
\* was read back.
C19_LostAtTheEdge ==
    /\ rpc = "read" /\ ~ zone_axis
    /\ counts[<<INDMAX, 0, 0>>] # 0
    /\ counts_in[<<INDMAX, 0, 0>>] = 0

\* A reflection read back with count 1 and a value more than a millionth off.
C19_FloatOff ==
    /\ rpc = "read"
    /\ \E p \in Measured19 : counts_in[p] = 1 /\ ~ WithinText19(p)

\* ------------------------------------------------------------- --record flags

Has20(word) == \E k \in DOMAIN record_arg : record_arg[k] = word

Conflicting20 ==
    \/ Has20("pixels") /\ Has20("integrated")
    \/ Has20("peaks") /\ Has20("peaksifindexed")

\* C20: parse_stream_flags returns a negative value for every list that
\* holds both pixels and integrated, or both peaks and peaksifindexed, in
\* either order and whatever other flags surround them; indexamajig then
\* exits with status 1 without processing any image.
C20_ConflictRejected ==
    (spc # "idle" /\ spc # "options" /\ Conflicting20) =>
        /\ stream_flags.value = "-1"
        /\ spc = "exit" /\ exit_status = "1"
        /\ n_processed = 0

\* A conflicting pair is rejected when every word in front of where the pair
\* is complete is one of the four the parser knows.
C20_KnownWordsConflictRejected ==
    (spc # "idle" /\ spc # "options") =>
        ((stream_flags.value = "-1") <=>
            \E k \in DOMAIN record_arg :
                /\ \A j \in 1..k : StreamBit(record_arg[j]) # "none"
                /\ \E j \in 1..(k - 1) :
                      StreamBit(record_arg[j]) = Excludes(record_arg[k]))

\* An image processed although the list holds pixels and integrated.
C20_ProcessedDespiteConflict ==
    /\ spc = "run" /\ n_processed >= 1
    /\ record_arg = <<"peaksifnotindexed", "pixels", "integrated">>
    /\ stream_flags.value = "0"

\* The words of the list, each counted once.
Given21 == {record_arg[k] : k \in DOMAIN record_arg}

\* C21: each flag the help text lists for --record (pixels, integrated,
\* peaks, peaksifindexed, peaksifnotindexed) is accepted by
\* parse_stream_flags: a list made only of documented flags with no
\* exclusive pair among them gives a non-zero bitfield with one distinct
\* bit per flag given.
C21_DocumentedAccepted ==
    (spc # "idle" /\ spc # "options" /\ record_arg # <<>> /\ ~ Conflicting20) =>
        /\ stream_flags.value = "bits"
        /\ Cardinality(stream_flags.bits) = Cardinality(Given21)

\* The list is the one documented flag the parser has no branch for, and
\* the value returned is 0.
C21_DocumentedFlagUnrecognised ==
    /\ spc = "run"
    /\ record_arg = <<"peaksifnotindexed">>
    /\ stream_flags.value = "0"

\* Lists of the four words the parser knows do get one bit per flag.
C21_KnownWordsAccepted ==
    (/\ spc # "idle" /\ spc # "options" /\ record_arg # <<>>
     /\ ~ Conflicting20 /\ "peaksifnotindexed" \notin Given21) =>
        /\ stream_flags.value = "bits"
        /\ Cardinality(stream_flags.bits) = Cardinality(Given21)

\* ------------------------------------------------- indexamajig's task queue

\* The workers between pthread_mutex_lock and pthread_mutex_unlock.
Holding22 == {w \in DOMAIN iworkers :
                 iworkers[w].st \in {"locked", "writing", "written"}}

\* The chunks started for a line of the list, and the tasks made of it.
Chunks22(n) == Cardinality({k \in DOMAIN ofh : ofh[k] = <<"start", n>>})
Tasks22(n) == Cardinality({k \in DOMAIN tasks : tasks[k] = n})

\* The state of the output and of the mutex as it has to be at any moment.
Single22 ==
    ipc \in {"running", "done"} =>
        /\ \A w \in DOMAIN iworkers : (w \in Holding22) <=> (output_mutex = w)
        /\ output_mutex # 0 => output_mutex \in DOMAIN iworkers
        /\ Cardinality(Holding22) <= 1
        /\ \A k \in DOMAIN ofh :
              IF k % 2 = 1
              THEN /\ ofh[k][1] = "start"
                   /\ k = Len(ofh) =>
                         /\ output_mutex # 0
                         /\ iworkers[output_mutex].st = "writing"
                         /\ iworkers[output_mutex].line = ofh[k][2]
              ELSE ofh[k] = <<"end", ofh[k - 1][2]>>
        /\ \A n \in DOMAIN filelist : Chunks22(n) <= Tasks22(n)
        /\ ipc = "done" => output_mutex = 0 /\ Len(ofh) % 2 = 0

\* C22: output chunks of concurrent process_image workers never interleave:
\* write_chunk runs only while the worker holds output_mutex, at most one
\* worker is inside write_chunk at any time (every chunk started in the
\* output is ended before the next one starts), every worker that takes
\* the mutex gives it back, and no image writes more than one chunk.
C22_ChunksNeverInterleave ==
    /\ []Single22
    /\ (output_mutex # 0) ~> (output_mutex = 0)

\* One worker is in the middle of its chunk while another, its image
\* measured, waits for the mutex.
C22_Witness ==
    /\ ipc = "running"
    /\ Len(ofh) = 1
    /\ \E w1, w2 \in DOMAIN iworkers :
          /\ iworkers[w1].st = "writing"
          /\ iworkers[w2].st = "measured"

\* ---- C26

\* The number of lines of the list.
Lines26 == Len(filelist)

\* C26: every line of the input file list is dispatched as a task exactly
\* once, in file order: the first line, which main reads ahead, is processed
\* once, get_image returns no task once the input is exhausted, at the end
\* n_processed equals the number of input lines, and n_indexable <=
\* n_processed at every moment.
C26_EveryLineOnce ==
    ipc \in {"running", "done"} =>
        /\ Len(tasks) <= Lines26
        /\ \A k \in DOMAIN tasks : tasks[k] = k
        /\ qargs.n_indexable <= qargs.n_processed
        /\ (\E w \in DOMAIN iworkers : iworkers[w].st = "exited") =>
              Len(tasks) = Lines26
        /\ ipc = "done" =>
              /\ Len(tasks) = Lines26
              /\ qargs.n_processed = Lines26

\* The same of the pieces fgets cuts the list into, which are its lines
\* when none is longer than the buffer.
C26_EveryPieceOnce ==
    ipc \in {"running", "done"} =>
        /\ Len(tasks) <= Len(Pieces(filelist))
        /\ \A k \in DOMAIN tasks : tasks[k] = Pieces(filelist)[k]
        /\ qargs.n_indexable <= qargs.n_processed
        /\ qargs.n_processed <= Len(tasks)
        /\ (\E w \in DOMAIN iworkers : iworkers[w].st = "exited") =>
              Len(tasks) = Len(Pieces(filelist))
        /\ ipc = "done" =>
              /\ Len(tasks) = Len(Pieces(filelist))
              /\ qargs.n_processed = Len(Pieces(filelist))

\* run_threads has returned with a long line counted as two images.
C26_LongLineTwice ==
    /\ ipc = "done"
    /\ filelist = <<"indexed", "long">>
    /\ tasks = <<1, 2, 2>>
    /\ qargs.n_processed = 3

\* ------------------------------------------------- the abort() of selection

\* C23: in every outer iteration, for every crystal, each reflection
\* flagged scalable that passes the I >= 3 sigma test is found in the
\* comparison list (the merged list, or the reference when one was given),
\* so the abort() in select_reflections_for_refinement is never reached,
\* also for reflections measured by fewer crystals than min_measurements.
C23_AbortNeverReached ==
    /\ pc # "aborted"
    /\ pc = "select" => AbortsAt(crystals, Comp) = {}

\* The abort() is reached without a reference, with the minimum at its
\* default of two measurements and no crystal flagged: a reflection that
\* only one crystal still measures after post-refinement.
C23_AbortedBelowMinimum ==
    /\ pc = "aborted"
    /\ ~ have_reference
    /\ min_measurements = 2
    /\ \A c \in Crystals : crystals[c].user_flag = 0

\* It is reached with a minimum of one measurement as well: the reflection
\* of a crystal that the re-scaling has skipped because it is flagged.
C23_AbortedAfterFlag ==
    /\ pc = "aborted"
    /\ ~ have_reference
    /\ min_measurements = 1
    /\ \E c \in Crystals : crystals[c].user_flag # 0

\* With a reference it is not reached, and never in the first cycle.
C23_NoAbortWithReference ==
    (have_reference \/ i = 0) => pc # "aborted"

\* --------------------------------------------------------- get_bin's range

\* The pairs fom_calculate's second loop takes to get_bin.
Pairs24 == DOMAIN given.list1 \cap DOMAIN given.list2

\* 2.0 * resolution(cell, h, k, l), on the scale of the shell boundaries.
D24(h) == shells.nshells * Res3(h)

\* At or below the first shell's lower end, or above the last one's upper.
Outside24(h) ==
    \/ D24(h) <= shells.rmins[0]
    \/ D24(h) > shells.rmaxs[shells.nshells - 1]

\* C24: for contiguous shells get_bin returns an index in 0..nshells-1 for
\* every finite resolution value, so that its assertion bin != -1 never
\* fails and fom_calculate counts no pair as out of range; values at or
\* below rmins[0] and values above rmaxs[nshells-1] both go to shell 0.
C24_EveryValueBinned ==
    shells.nshells > 0 =>
        /\ \A j \in 0..(shells.nshells - 2) :
              shells.rmaxs[j] = shells.rmins[j + 1]
        /\ \A h \in FHKL :
              /\ get_bin(shells, h) \in 0..(shells.nshells - 1)
              /\ Outside24(h) => get_bin(shells, h) = 0
        /\ (fpc = "calculated" /\ Unmatched = {} /\ noscale) =>
              /\ fctx.status = "ok"
              /\ DOMAIN fctx.binof = Pairs24
              /\ \A h \in Pairs24 : fctx.binof[h] = get_bin(shells, h)

\* fom_calculate has put one pair below the shells and one above them, of
\* shells that rise, into shell 0.
C24_Witness ==
    /\ fpc = "calculated"
    /\ fctx.status = "ok"
    /\ shells.nshells >= 2
    /\ shells.rmins[0] < shells.rmaxs[shells.nshells - 1]
    /\ \E h1, h2 \in Pairs24 :
          /\ D24(h1) < shells.rmins[0]
          /\ D24(h2) > shells.rmaxs[shells.nshells - 1]
          /\ fctx.binof[h1] = 0 /\ fctx.binof[h2] = 0
          /\ fctx.cts[0] >= 2

\* ------------------------------------------------- Bijvoet pairs, once each

\* Every reflection of either list has its Bijvoet partner in both lists.
Complete25 ==
    \A h \in DOMAIN given.list1 \cup DOMAIN given.list2 :
        /\ find_equiv_in_list(given.list1, Friedel(h), sym)
        /\ find_equiv_in_list(given.list2, Friedel(h), sym)

\* The Bijvoet pair a reflection of list1 belongs to.
Pair25(h) == {h, EquivFound(given.list1, Friedel(h), sym)}

\* Place of a reflection in the order the list is gone through.
Place25(h) == CHOOSE k \in DOMAIN IterOrder : IterOrder[k] = h

\* The member of a pair that the loop comes to first.
First25(h) ==
    CHOOSE x \in Pair25(h) : \A y \in Pair25(h) : Place25(x) <= Place25(y)

\* Pairs added to shell j.
Added25(j) == Cardinality({h \in DOMAIN fctx.binof : fctx.binof[h] = j})

\* C25: for the anomalous figures of merit (CCano, CRDano, Rano,
\* Rano/Rsplit) on lists in which every reflection has its Bijvoet partner
\* in both lists, fom_calculate adds each Bijvoet pair to the accumulators
\* exactly once, whichever member of the pair is visited first, and none
\* of its assertions fails.
C25_EachBijvoetPairOnce ==
    (fpc = "calculated" /\ Complete25) =>
        /\ fctx.status \in {"ok", "null"}
        /\ noscale => fctx.status = "ok"
        /\ fctx.status = "ok" =>
              /\ DOMAIN fctx.binof = {First25(h) : h \in DOMAIN given.list1}
              /\ \A j \in 0..(fctx.nshells - 1) :
                    /\ fctx.cts[j] = Added25(j)
                    /\ fctx.fom \in {"CCANO", "CRDANO"} =>
                          /\ Len(fctx.vec1[j]) = Added25(j)
                          /\ Len(fctx.vec2[j]) = Added25(j)
              /\ \A h \in DOMAIN list1 : list1[h].flag = 1
              /\ \A h \in DOMAIN list2 : list2[h].flag = 1

\* CCano on lists without symmetry that hold (1,0,0) and (-1,0,0): the pair
\* went in once, through (-1,0,0), which the loop meets first.
C25_Witness ==
    /\ fpc = "calculated"
    /\ Complete25
    /\ fctx.status = "ok"
    /\ fom = "CCANO"
    /\ sym = "1"
    /\ <<1, 0, 0>> \in DOMAIN given.list1
    /\ <<-1, 0, 0>> \in DOMAIN fctx.binof
    /\ <<1, 0, 0>> \notin DOMAIN fctx.binof
    /\ Len(fctx.vec1[fctx.binof[<<-1, 0, 0>>]]) >= 1

\* ------------------------------------------------ remove_flagged_crystals

\* The crystals of a list whose flag is 0, in the order of the list.
RECURSIVE Unflagged27(_)
Unflagged27(crs) ==
    IF crs = <<>> THEN <<>>
    ELSE LET front == Unflagged27(SubSeq(crs, 1, Len(crs) - 1))
         IN  IF crs[Len(crs)].user_flag = 0
             THEN Append(front, crs[Len(crs)])
             ELSE front

\* C27: remove_flagged_crystals leaves in the image exactly the crystals
\* whose user flag was 0, in their original relative order, for any pattern
\* of flags; it returns the number removed and n_crystals has gone down by
\* that number.
C27_OnlyUnflaggedLeft ==
    cpc = "returned" =>
        /\ SubSeq(image.crystals, 1, image.n_crystals)
              = Unflagged27(image_in.crystals)
        /\ n_bad = image_in.n_crystals - image.n_crystals
        /\ n_bad = Cardinality({x \in DOMAIN image_in.crystals :
                                   image_in.crystals[x].user_flag # 0})
        /\ image.freed = {image_in.crystals[x].name :
                             x \in {y \in DOMAIN image_in.crystals :
                                       image_in.crystals[y].user_flag # 0}}

\* Two flagged crystals in a row and a flagged last one have been removed.
C27_Witness ==
    /\ cpc = "returned"
    /\ image_in.n_crystals = 3
    /\ image_in.crystals[1].user_flag = 0
    /\ image_in.crystals[2].user_flag # 0
    /\ image_in.crystals[3].user_flag # 0
    /\ image.n_crystals = 1
    /\ n_bad = 2

\* --------------------------------------------------------- skip_some_files

\* The places of the chunk end markers in the file, as count_patterns
\* counts them.
Ends28 == {k \in DOMAIN sfile.lines : sfile.lines[k] = "end"}

\* The read position just after the n-th chunk end marker.
After28(n) ==
    IF n = 0 THEN 0
    ELSE CHOOSE k \in Ends28 : Cardinality({x \in Ends28 : x <= k}) = n

\* C28: skip_some_files(fh, n) returns 0 with the read position just after
\* the n-th chunk end marker whenever the stream contains at least n chunks
\* (the chunks count_patterns counts), and returns 1 only when fewer than n
\* chunks remain.
C28_SkipsNChunks ==
    kpc = "returned" =>
        /\ count_patterns(sfile) >= skip_n =>
              skip_ret = "0" /\ sfh = After28(skip_n)
        /\ skip_ret = "1" => count_patterns(sfile) < skip_n

\* A file of one complete chunk, its end marker closed by a newline as
\* write_chunk writes it: one chunk was to be skipped and 1 was returned.
C28_ChunkNotSeen ==
    /\ kpc = "returned"
    /\ sfile = [lines |-> <<"other", "end">>, final_nl |-> TRUE]
    /\ skip_n = 1
    /\ count_patterns(sfile) = 1
    /\ skip_ret = "1"

\* What skip_some_files does count: an end marker that ends the file
\* without a newline.  With n > 0 it returns 0 only for n = 1 and such a
\* file, and always at the end of the file.
C28_OnlyUnterminatedMarker ==
    (kpc = "returned" /\ skip_n > 0) =>
        ((skip_ret = "0") <=>
            /\ skip_n = 1
            /\ sfile.lines # <<>>
            /\ sfile.lines[Len(sfile.lines)] = "end"
            /\ ~ sfile.final_nl)

\* ---------------------------------------------------------------- im_asapo

\* The last call of im_asapo_fetch received end of stream.
Ended29 == fetched # <<>> /\ fetched[1].got = "EndOfStream"

\* C29: when im_asapo_fetch receives end-of-stream for the current stream
\* it returns NULL without data and select_next_stream switches the current
\* stream to the one that follows it, for every position of the current
\* stream in the stream list, so that repeated calls eventually fetch from
\* the following stream.
C29_SwitchesToFollowing ==
    Ended29 =>
        /\ fetched[1].returned = "NULL"
        /\ a_stream = next_stream(asapo, fetched[1].from)

\* End of stream was received for the first stream of the list, and the
\* current stream is still that stream.
C29_FirstNotLeft ==
    /\ Ended29
    /\ fetched[1].from = 1
    /\ next_stream(asapo, 1) = 2
    /\ a_stream = 1

\* Calls that start from the first stream of the list never leave it, so
\* no later call fetches from the stream that follows it.
C29_FirstForEver == [][a_stream = 1 => a_stream' = 1]_vars

\* From every other position the switch is made.
C29_SwitchesUnlessFirst ==
    (Ended29 /\ fetched[1].from > 1) =>
        /\ fetched[1].returned = "NULL"
        /\ a_stream = next_stream(asapo, fetched[1].from)

\* End of stream was received for a stream in the middle of the list.
C29_MiddleLeft ==
    /\ Ended29
    /\ fetched[1].from = 2
    /\ Len(asapo) = 3
    /\ a_stream = 3

\* End of stream was received for the last stream of the list.
C29_LastLeft ==
    /\ Ended29
    /\ fetched[1].from = 2
    /\ Len(asapo) = 2
    /\ a_stream = 3

\* ------------------------------------------- data_template_new_from_string

\* The coordinate keys the description gives for a bad region.
Keys30(name) ==
    {geometry[k].key : k \in {x \in DOMAIN geometry :
        /\ geometry[x].kind = "bad"
        /\ geometry[x].name = name
        /\ geometry[x].key # "panel"}}

\* The bad regions the description names, and those it gets wrong: both
\* kinds of limits, or none.
Regions30 ==
    {geometry[k].name : k \in {x \in DOMAIN geometry : geometry[x].kind = "bad"}}

WrongRegion30 == \E name \in Regions30 : Cardinality(Keys30(name)) # 1

\* The description defines no panel at all.
Panelless30 == \A k \in DOMAIN geometry : geometry[k].kind # "panel"

Returned30 == gpc \in {"NULL", "dt"}

\* C30: data_template_new_from_string returns NULL for a geometry
\* description that defines no panel at all, and for one in which any bad
\* region mixes x/y limits with fs/ss limits (in either order) or gives no
\* coordinate range; a template that is returned has at least one panel and
\* every bad region of it is purely x/y or purely fs/ss.
C30_RejectsUnusable ==
    Returned30 =>
        /\ Panelless30 => gpc = "NULL"
        /\ WrongRegion30 => gpc = "NULL"
        /\ gpc = "dt" =>
              /\ n_panels_of(dt) >= 1
              /\ \A k \in DOMAIN dt.bad : dt.bad[k].is_fsss \in {0, 1}

\* A description of one top-level option and no panel: a template with no
\* panels is returned.
C30_PanellessReturned ==
    /\ gpc = "dt"
    /\ geometry = <<[kind |-> "toplevel"]>>
    /\ n_panels_of(dt) = 0

\* The part about bad regions holds: a region with both kinds of limits, in
\* either order, or with none, makes the function return NULL, and the bad
\* regions of a returned template are each of one kind.
C30_BadRegionsChecked ==
    Returned30 =>
        /\ WrongRegion30 => gpc = "NULL"
        /\ gpc = "dt" =>
              \A k \in DOMAIN dt.bad : dt.bad[k].is_fsss \in {0, 1}

\* fs/ss limits first and x/y limits after them were refused.
C30_MixedRefused ==
    /\ gpc = "NULL"
    /\ Len(geometry) = 3
    /\ geometry[1] = [kind |-> "panel", name |-> "p0", accepted |-> TRUE]
    /\ geometry[2] = [kind |-> "bad", name |-> "bad0", key |-> "fsss"]
    /\ geometry[3] = [kind |-> "bad", name |-> "bad0", key |-> "xy"]
    /\ dt.bad[1].is_fsss = 1

\* A bad region with no coordinate range was refused.
C30_RangelessRefused ==
    /\ gpc = "NULL"
    /\ Len(geometry) = 2
    /\ geometry[1] = [kind |-> "panel", name |-> "p0", accepted |-> TRUE]
    /\ geometry[2] = [kind |-> "bad", name |-> "bad0", key |-> "panel"]
    /\ dt.bad[1].is_fsss = Unassigned

====
